---- MODULE Spec2Model ----
(***************************************************************************)
(* Gamertag resolution of RealmsPlayerlistBot: GamertagHandler.run with    *)
(* its bulk / fallback providers, the semaphore bot.pl_sem, the detached   *)
(* redis pipeline, and fill_in_gamertags_for_sessions on top of it         *)
(* (src/common/playerlist_utils.py).                                       *)
(***************************************************************************)
EXTENDS Naturals, Sequences, FiniteSets, TLC

\* ------------------------------------------------------------------ bounds
\* Callers that may run concurrently.
NumCalls == 2
\* Permits of bot.pl_sem (sized where the bot is built, outside this file).
Permits == 1
\* Longest identifier tuple handed to one GamertagHandler.
MaxXuids == 3
\* Fallback phases that asyncio.wait_for's timeout may end in one run of the model.
MaxCuts == 1

\* GamertagHandler.AMOUNT_TO_GET (500 in the source, scaled to the model).
AMOUNT_TO_GET == 2

Procs == 1..NumCalls

\* Python's None.
None == "None"

XuidNames == <<"x1", "x2", "x3", "x4", "x5">>
Xuids == {XuidNames[i] : i \in 1..MaxXuids}
Gamertags == {"gA", "gB"}

Min(a, b) == IF a < b THEN a ELSE b
Range(s) == {s[i] : i \in 1..Len(s)}

\* ------------------------------------------------- device hint extraction
MINECRAFT_TITLE_IDS ==
    {"1828326430", "2047319603", "2044456598", "896928775",
     "1739947436", "1810924247", "1944307183"}

\* str.lower() on the presence texts the model draws from.
Lower(t) ==
    CASE t = "Minecraft for Android" -> "minecraft for android"
      [] t = "MINECRAFT FOR iOS" -> "minecraft for ios"
      [] t = "Halo Infinite" -> "halo infinite"
      [] OTHER -> t

\* "minecraft for" in <lowered text>
ContainsMinecraftFor(lowered) ==
    lowered \in {"minecraft for android", "minecraft for ios"}

AllowListed(p) == p.title_id \in MINECRAFT_TITLE_IDS /\ p.is_primary
Heuristic(p) == ContainsMinecraftFor(Lower(p.presence_text)) /\ p.is_primary

\* next((p for p in details if <allow-listed>), None): index of the first match, 0 if none
FirstAllowListed(details) ==
    IF \E i \in 1..Len(details) : AllowListed(details[i])
    THEN CHOOSE i \in 1..Len(details) :
            /\ AllowListed(details[i])
            /\ \A j \in 1..(i - 1) : ~AllowListed(details[j])
    ELSE 0

\* next((p for p in details if <heuristic>), None): index of the first match, 0 if none
FirstHeuristic(details) ==
    IF \E i \in 1..Len(details) : Heuristic(details[i])
    THEN CHOOSE i \in 1..Len(details) :
            /\ Heuristic(details[i])
            /\ \A j \in 1..(i - 1) : ~Heuristic(details[j])
    ELSE 0

\* A device extraction that does not look at gather_devices_for.
DeviceOfAnyone(user, gather) ==
    IF user.presence_details # <<>>
    THEN LET a == FirstAllowListed(user.presence_details)
             m == FirstHeuristic(user.presence_details)
         IN  IF a # 0 THEN [device |-> user.presence_details[a].device, audit |-> FALSE]
             ELSE IF m # 0 THEN [device |-> user.presence_details[m].device, audit |-> TRUE]
             ELSE [device |-> None, audit |-> FALSE]
    ELSE [device |-> None, audit |-> FALSE]

\* A device extraction that asks the text heuristic before the allow-list.
DeviceOfHeuristicFirst(user, gather) ==
    IF user.xuid \in gather /\ user.presence_details # <<>>
    THEN LET a == FirstAllowListed(user.presence_details)
             m == FirstHeuristic(user.presence_details)
         IN  IF m # 0 THEN [device |-> user.presence_details[m].device, audit |-> TRUE]
             ELSE IF a # 0 THEN [device |-> user.presence_details[a].device, audit |-> FALSE]
             ELSE [device |-> None, audit |-> FALSE]
    ELSE [device |-> None, audit |-> FALSE]

\* The device of one PeopleHub user and whether msg_to_owner is awaited for it.
DeviceOf(user, gather) ==
    IF user.xuid \in gather /\ user.presence_details # <<>>
    THEN LET a == FirstAllowListed(user.presence_details)
             m == FirstHeuristic(user.presence_details)
         IN  IF a # 0 THEN [device |-> user.presence_details[a].device, audit |-> FALSE]
             ELSE IF m # 0 THEN [device |-> user.presence_details[m].device, audit |-> TRUE]
             ELSE [device |-> None, audit |-> FALSE]
    ELSE [device |-> None, audit |-> FALSE]

\* Presence lists the bulk provider may attach to a user.
PresenceOptions ==
    { <<>>,
      <<[title_id |-> "1828326430", is_primary |-> TRUE,
         presence_text |-> "Halo Infinite", device |-> "Android"]>>,
      <<[title_id |-> "42", is_primary |-> TRUE,
         presence_text |-> "MINECRAFT FOR iOS", device |-> "iOS"]>> }

\* Longest presence list of a user.
MaxPresence == 2

\* Presence entries: of an allow-listed title or not, primary or not, with a text
\* the heuristic matches or not, on one of two devices.
PresenceEntries ==
    [title_id : {"1828326430", "42"}, is_primary : BOOLEAN,
     presence_text : {"MINECRAFT FOR iOS", "Halo Infinite"},
     device : {"Android", "iOS"}]

PresenceLists == UNION {[1..n -> PresenceEntries] : n \in 0..MaxPresence}

\* ------------------------------------------------------------ the providers
\* What bot.xbox.fetch_people_batch can come back with for xuid_list.
Descriptions(xuid_list) ==
    {<<"Throttled">>, <<"Forbidden">>} \cup {<<"XUID", x, "invalid">> : x \in Xuids}

\* A successful reply: one user per requested xuid, each with one of `profiles`
\* (a gamertag and a presence list).
PeopleReplies(xuid_list, profiles) ==
    {[kind |-> "people",
      people |-> [i \in 1..Len(xuid_list) |->
                    [xuid |-> xuid_list[i], gamertag |-> f[i][1],
                     presence_details |-> f[i][2]]]] :
        f \in [1..Len(xuid_list) -> profiles]}

ApiReplies(xuid_list) ==
    {[kind |-> "api", code |-> c, description |-> d, limitType |-> l] :
        c \in BOOLEAN, d \in Descriptions(xuid_list), l \in BOOLEAN}

\* The profiles of a provider that answers every xuid with a gamertag, and the
\* plain ones (no presence, the gamertag possibly empty).
FullProfiles == Gamertags \X PresenceOptions
PlainProfiles == {"gA", ""} \X {<<>>}
SomeProfiles ==
    PlainProfiles \cup
    {<<"gB", <<[title_id |-> "42", is_primary |-> TRUE,
                presence_text |-> "MINECRAFT FOR iOS", device |-> "iOS"]>> >>}

\* The replies of the bulk provider by its behaviour in this run:
\*   "ok"        it always succeeds, with any profile;
\*   "cooldown"  it always signals a cooldown;
\*   "invalid"   it reports one invalid xuid of the list per call, or succeeds;
\*   "steady"    it always succeeds, every user with the same plain profile;
\*   "some"      it always succeeds, a user having a gamertag, an empty one,
\*               or a gamertag and a presence list;
\*   "caught"    its body does not parse, or its error reply has neither a code
\*               nor a limitType;
\*   "fatal"     the request fails below HTTP (a connection error);
\*   "coded"     its error reply has a code and a description that neither
\*               starts with "Throttled" nor names an xuid of the list;
\*   "presence"  it always succeeds, a user having any presence list;
\*   "any"       any reply, its successes with plain profiles;
\*   "mixed"     any reply, its successes with the one plain profile of "steady".
BulkReplies(mode, xuid_list) ==
    CASE mode = "ok" -> PeopleReplies(xuid_list, FullProfiles)
      [] mode = "steady" -> PeopleReplies(xuid_list, {"gA"} \X {<<>>})
      [] mode = "some" -> PeopleReplies(xuid_list, SomeProfiles)
      [] mode = "cooldown" ->
            {r \in ApiReplies(xuid_list) :
                \/ r.code /\ r.description = <<"Throttled">>
                \/ ~r.code /\ r.limitType}
      [] mode = "invalid" ->
            PeopleReplies(xuid_list, {"gA"} \X {<<>>}) \cup
            {r \in ApiReplies(xuid_list) :
                /\ r.code
                /\ Len(r.description) = 3
                /\ r.description[2] \in Range(xuid_list)}
      [] mode = "caught" ->
            {[kind |-> "garbage"]} \cup
            {r \in ApiReplies(xuid_list) : ~r.code /\ ~r.limitType}
      [] mode = "fatal" -> {[kind |-> "error"]}
      [] mode = "coded" ->
            {r \in ApiReplies(xuid_list) :
                /\ r.code
                /\ r.description[1] # "Throttled"
                /\ Len(r.description) = 3 => r.description[2] \notin Range(xuid_list)}
      [] mode = "presence" -> PeopleReplies(xuid_list, {"gA"} \X PresenceLists)
      [] mode = "mixed" ->
            PeopleReplies(xuid_list, {"gA"} \X {<<>>})
            \cup ApiReplies(xuid_list)
            \cup {[kind |-> "garbage"], [kind |-> "error"]}
      [] OTHER ->
            PeopleReplies(xuid_list, PlainProfiles)
            \cup ApiReplies(xuid_list)
            \cup {[kind |-> "garbage"], [kind |-> "error"]}

\* get_gamertags on one reply: what the method does with it.
BulkEffect(r, xuid_list) ==
    CASE r.kind = "people" -> "append"
      [] r.kind = "garbage" -> "ValidationError"
      [] r.kind = "error" -> "OtherError"
      [] OTHER ->
            IF r.code
            THEN IF r.description[1] = "Throttled" THEN "GamertagOnCooldown"
                 ELSE IF Len(r.description) < 2 THEN "OtherError"  \* IndexError
                 ELSE IF r.description[2] \notin Range(xuid_list)
                      THEN "OtherError"                            \* ValueError
                 ELSE "remove"
            ELSE IF r.limitType THEN "GamertagOnCooldown"
            ELSE "MicrosoftAPIException"

\* An except clause that names the cooldown signal only.
CaughtCooldownOnly == {"GamertagOnCooldown"}

\* run's except clause around get_gamertags.
CaughtByRun == {"GamertagOnCooldown", "ValidationError", "MicrosoftAPIException"}

\* A removal of the last element whatever the identifier reported.
RemoveLast(xuid_list, x) == SubSeq(xuid_list, 1, Len(xuid_list) - 1)

\* list.remove(x): the first occurrence.
Remove(xuid_list, x) ==
    LET i == CHOOSE k \in 1..Len(xuid_list) :
                /\ xuid_list[k] = x
                /\ \A j \in 1..(k - 1) : xuid_list[j] # x
    IN  SubSeq(xuid_list, 1, i - 1) \o SubSeq(xuid_list, i + 1, Len(xuid_list))

\* xuids_to_get[index : index + AMOUNT_TO_GET] (index is 0-based)
Window(xuids, idx) == SubSeq(xuids, idx + 1, Min(idx + AMOUNT_TO_GET, Len(xuids)))

\* A cursor that moves by the length of the list the call was made with.
AdvanceByList(idx, xuid_list) == idx + Len(xuid_list)

\* A cursor that moves by one identifier after a bulk call.
AdvanceByOne(idx, xuid_list) == idx + 1

\* A cursor that moves one identifier past the window.
AdvanceBeyond(idx, xuid_list) == idx + AMOUNT_TO_GET + 1

\* self.index += self.AMOUNT_TO_GET
AdvanceBulk(idx, xuid_list) == idx + AMOUNT_TO_GET

\* tuple(x for x in self.xuids_to_get if x)
NonEmpty(x) == x # ""
post_init(raw) == SelectSeq(raw, NonEmpty)

\* ------------------------------------------------------- post-processing
\* The users of the accumulated responses, in order, as (xuid, gamertag, device, audit).
RECURSIVE Users(_, _)
Users(resps, gather) ==
    IF resps = <<>> THEN <<>>
    ELSE LET r == Head(resps)
             here ==
                IF r.kind = "people"
                THEN [i \in 1..Len(r.people) |->
                        LET d == DeviceOf(r.people[i], gather)
                        IN  [xuid |-> r.people[i].xuid,
                             gamertag |-> r.people[i].gamertag,
                             device |-> d.device, audit |-> d.audit]]
                ELSE IF r.gamertag = None THEN <<>>   \* no "Gamertag" setting: continue
                ELSE <<[xuid |-> r.id, gamertag |-> r.gamertag,
                        device |-> None, audit |-> FALSE]>>
         IN  here \o Users(Tail(resps), gather)

\* _handle_new_gamertag on the dict and on the pipeline's staged commands.
\* A store that does not test the xuid and the gamertag.
HandleDictUnchecked(d, u) ==
    [x \in DOMAIN d \cup {u.xuid} |->
        IF x = u.xuid THEN [gamertag |-> u.gamertag, device |-> u.device]
        ELSE d[x]]

HandleDict(d, u) ==
    IF u.xuid = "" \/ u.gamertag = "" THEN d
    ELSE [x \in DOMAIN d \cup {u.xuid} |->
            IF x = u.xuid THEN [gamertag |-> u.gamertag, device |-> u.device]
            ELSE d[x]]

\* utils.EXPIRE_GAMERTAGS_AT, the `time` of every SETEX (its value is not used).
EXPIRE_GAMERTAGS_AT == "EXPIRE_GAMERTAGS_AT"

\* A write that stages the forward entry only.
HandlePipeForwardOnly(pipe, u) ==
    IF u.xuid = "" \/ u.gamertag = "" THEN pipe
    ELSE pipe \o << <<u.xuid, u.gamertag, EXPIRE_GAMERTAGS_AT>> >>

\* pipe.setex(name, time, value) twice: a staged command is <<name, value, time>>.
HandlePipe(pipe, u) ==
    IF u.xuid = "" \/ u.gamertag = "" THEN pipe
    ELSE pipe \o << <<u.xuid, u.gamertag, EXPIRE_GAMERTAGS_AT>>,
                    <<"rpl-" \o u.gamertag, u.xuid, EXPIRE_GAMERTAGS_AT>> >>

RECURSIVE FoldDict(_, _)
FoldDict(d, us) == IF us = <<>> THEN d ELSE FoldDict(HandleDict(d, Head(us)), Tail(us))

RECURSIVE FoldPipe(_, _)
FoldPipe(pipe, us) ==
    IF us = <<>> THEN pipe ELSE FoldPipe(HandlePipe(pipe, Head(us)), Tail(us))

EmptyDict == [x \in {} |-> None]
DictOf(resps, gather) == FoldDict(EmptyDict, Users(resps, gather))
PipeOf(resps, gather) == FoldPipe(<<>>, Users(resps, gather))
NeedsAudit(resps, gather) ==
    LET us == Users(resps, gather) IN \E i \in 1..Len(us) : us[i].audit

\* --------------------------------------------------------------- the cache
SENTINEL == "PURPOSELY_INVALID_KEY_AAAAAAAAAAAAAAAA"
Keys == Xuids \cup {"rpl-" \o g : g \in Gamertags} \cup {SENTINEL}

\* pipe.execute(): the staged SETEX commands in order.
RECURSIVE ApplyPipe(_, _)
ApplyPipe(c, pipe) ==
    IF pipe = <<>> THEN c
    ELSE ApplyPipe([c EXCEPT ![Head(pipe)[1]] = Head(pipe)[2]], Tail(pipe))

\* A pipeline whose execute writes its first command only.
ExecuteFirstOnly(c, pipe) ==
    IF pipe = <<>> THEN c ELSE ApplyPipe(c, <<Head(pipe)>>)

\* await pipe.execute() of a pipeline made by redis.pipeline(), whose default is
\* transaction=True: the commands go out as one MULTI/EXEC block, all of them run.
ExecuteAll(c, pipe) == ApplyPipe(c, pipe)

\* ------------------------------------------------------------------- state
VARIABLES
    sem,                 \* free permits of bot.pl_sem
    cache,               \* bot.redis: key -> value, None when absent
    provider,            \* how the bulk provider behaves in this run
    pc,                  \* where each caller is
    xuids_to_get,        \* GamertagHandler.xuids_to_get
    gather_devices_for,  \* GamertagHandler.gather_devices_for
    index,               \* GamertagHandler.index
    current_xuid_list,   \* run's list for the window, pruned by get_gamertags
    responses,           \* GamertagHandler.responses
    result,              \* what run returned or raised
    task,                \* the detached _execute_pipeline task of the call
    bulkCalls,           \* fetch_people_batch calls issued by the call
    fbCalls,             \* openxbl GETs issued by the call, per position
    cuts,                \* fallback phases of the call ended by the timeout
    pruned,              \* identifiers get_gamertags removed in the call
    skipped,             \* identifiers whose fallback attempt ended in a caught failure
    retries,             \* removals in the current get_gamertags attempt
    entry,               \* what the caller called: "run" or "fill"
    player_sessions,     \* the PlayerSession objects handed to fill_in_gamertags_for_sessions
    bypass_cache,        \* its bypass_cache argument
    bypass_cache_for,    \* its bypass_cache_for argument
    returned,            \* what fill_in_gamertags_for_sessions returned or raised
    pred,                \* the earlier caller whose call this one repeats (0: none)
    seen,                \* the cache as it was when the caller's fill call began
    guild_config,        \* the GuildConfig of the guild: playerlist_chan, live_playerlist, realm_id
    live_playerlist_store,  \* bot.live_playerlist_store[realm_id]: guild ids
    invalid_playerlist,  \* bot.redis: the value under invalid-playerlist<limit>-<guild_id>
    ipc,                 \* where each failing fetch_playerlist_channel call is
    num_times,           \* eventually_invalidate's num_times, per call
    old_live_playerlist  \* eventually_invalidate's old_live_playerlist, per call

vars == <<sem, cache, provider, pc, xuids_to_get, gather_devices_for, index,
          current_xuid_list, responses, result, task, bulkCalls, fbCalls,
          cuts, pruned, skipped, retries, entry, player_sessions, bypass_cache,
          bypass_cache_for, returned, pred, seen, guild_config,
          live_playerlist_store, invalid_playerlist, ipc, num_times,
          old_live_playerlist>>

invalidation == <<guild_config, live_playerlist_store, invalid_playerlist, ipc,
                  num_times, old_live_playerlist>>

fill == <<entry, player_sessions, bypass_cache, bypass_cache_for, returned, pred, seen>>

handler == <<xuids_to_get, gather_devices_for>>

Running == [status |-> "running"]
NoTask == [st |-> "none", pipe |-> <<>>]
NoCalls == [i \in 1..MaxXuids |-> 0]

\* Raw identifier tuples: empties anywhere, the rest distinct (named in order).
RawInputs(n) ==
    {raw \in UNION {[1..k -> Xuids \cup {""}] : k \in 0..n} :
        \A i \in 1..Len(post_init(raw)) : post_init(raw)[i] = XuidNames[i]}

GatherOptions == {{}, {"x1"}, Xuids}

EmptyCache == [k \in Keys |-> None]

NotReturned == [status |-> "pending"]

\* No caller has called fill_in_gamertags_for_sessions.
NoFill ==
    /\ player_sessions = [p \in Procs |-> <<>>]
    /\ bypass_cache = [p \in Procs |-> FALSE]
    /\ bypass_cache_for = [p \in Procs |-> {}]
    /\ returned = [p \in Procs |-> NotReturned]
    /\ pred = [p \in Procs |-> 0]
    /\ seen = [p \in Procs |-> EmptyCache]

\* Most failing fetch_playerlist_channel calls for the one guild.
MaxFailures == 4
Failures == 1..MaxFailures

\* eventually_invalidate's limit (its default; fetch_playerlist_channel passes none).
limit == 3

\* if utils.TEST_MODE: return
TEST_MODE == FALSE

\* str(n) and int(s) on the counts the model reaches.
Digits == <<"0", "1", "2", "3", "4", "5", "6">>
ToStr(n) == Digits[n + 1]
ToInt(s) == (CHOOSE i \in 1..Len(Digits) : Digits[i] = s) - 1

\* The guild has a playerlist channel, a realm and no failure on record; no call
\* of fetch_playerlist_channel is under way.
NoInvalidation ==
    /\ \E live \in BOOLEAN :
          /\ guild_config = [playerlist_chan |-> "chan", live_playerlist |-> live,
                             realm_id |-> "realm"]
          /\ live_playerlist_store = IF live THEN {"g1"} ELSE {}
    /\ invalid_playerlist = None
    /\ ipc = [c \in Failures |-> "idle"]
    /\ num_times = [c \in Failures |-> None]
    /\ old_live_playerlist = [c \in Failures |-> FALSE]

\* The guild as every run() and fill call leaves it.
GuildAtRest ==
    /\ guild_config = [playerlist_chan |-> "chan", live_playerlist |-> FALSE,
                       realm_id |-> "realm"]
    /\ live_playerlist_store = {}
    /\ invalid_playerlist = None
    /\ ipc = [c \in Failures |-> "idle"]
    /\ num_times = [c \in Failures |-> None]
    /\ old_live_playerlist = [c \in Failures |-> FALSE]

\* The handlers before any caller has built one.
NoHandler ==
    /\ index = [p \in Procs |-> 0]
    /\ current_xuid_list = [p \in Procs |-> <<>>]
    /\ responses = [p \in Procs |-> <<>>]
    /\ result = [p \in Procs |-> Running]
    /\ task = [p \in Procs |-> NoTask]
    /\ bulkCalls = [p \in Procs |-> 0]
    /\ fbCalls = [p \in Procs |-> NoCalls]
    /\ cuts = [p \in Procs |-> 0]
    /\ pruned = [p \in Procs |-> {}]
    /\ skipped = [p \in Procs |-> {}]
    /\ retries = [p \in Procs |-> 0]

\* One caller constructs a GamertagHandler and calls run().
Init ==
    /\ sem = Permits
    /\ cache = EmptyCache
    /\ provider \in {"any", "ok", "cooldown", "invalid", "caught", "fatal", "coded"}
    /\ \E raw \in RawInputs(MaxXuids),
          g \in (IF provider = "ok" THEN GatherOptions
                ELSE IF provider \in {"caught", "fatal", "coded"} THEN {{}}
                ELSE {{}, Xuids}) :
          /\ xuids_to_get = [p \in Procs |-> IF p = 1 THEN post_init(raw) ELSE <<>>]
          /\ gather_devices_for = [p \in Procs |-> IF p = 1 THEN g ELSE {}]
    /\ pc = [p \in Procs |-> IF p = 1 THEN "loop" ELSE "idle"]
    /\ NoHandler
    /\ GuildAtRest
    /\ entry = [p \in Procs |-> "run"]
    /\ NoFill

\* A semaphore that never makes its caller wait.
CanAcquireAlways(s) == TRUE

\* ----------------------------------------------------------------- run()
\* asyncio.Semaphore.acquire: only with a free permit
CanAcquire(s) == s > 0

\* while self.index < len(self.xuids_to_get): the window is taken, async with
\* self.sem gets its permit and get_gamertags issues its first fetch_people_batch.
\* Without a free permit the caller waits here.
StartIteration(p) ==
    /\ pc[p] = "loop"
    /\ index[p] < Len(xuids_to_get[p])
    /\ CanAcquire(sem)
    /\ sem' = sem - 1
    /\ current_xuid_list' = [current_xuid_list EXCEPT ![p] = Window(xuids_to_get[p], index[p])]
    /\ retries' = [retries EXCEPT ![p] = 0]
    /\ pc' = [pc EXCEPT ![p] = "bulk"]
    /\ bulkCalls' = [bulkCalls EXCEPT ![p] = @ + 1]
    /\ UNCHANGED <<fill, cache, provider, invalidation, handler, index, responses, result, task,
                   fbCalls, cuts, pruned, skipped>>

\* An exit from the block that keeps the permit.
KeepPermit(s) == s

\* asyncio.Semaphore.release
Release(s) == s + 1

\* The async with block of one iteration ends (normally or by an exception): the
\* permit goes back; the iteration's list is a dead local from here on.
LeaveIteration(p, to) ==
    /\ sem' = Release(sem)
    /\ pc' = [pc EXCEPT ![p] = to]
    /\ current_xuid_list' = [current_xuid_list EXCEPT ![p] = <<>>]
    /\ retries' = [retries EXCEPT ![p] = 0]

\* get_gamertags: the call succeeds; responses.append, index += AMOUNT_TO_GET;
\* the async with block ends and the permit goes back
BulkSuccess(p) ==
    /\ pc[p] = "bulk"
    /\ \E r \in BulkReplies(provider, current_xuid_list[p]) :
          /\ BulkEffect(r, current_xuid_list[p]) = "append"
          /\ responses' = [responses EXCEPT ![p] = Append(@, r)]
    /\ index' = [index EXCEPT ![p] = AdvanceBulk(@, current_xuid_list[p])]
    /\ LeaveIteration(p, "loop")
    /\ UNCHANGED <<fill, cache, provider, invalidation, handler, result, task,
                   bulkCalls, fbCalls, cuts, pruned, skipped>>

\* get_gamertags: an invalid xuid is reported; xuid_list.remove and the call again
BulkRemove(p) ==
    /\ pc[p] = "bulk"
    /\ \E r \in BulkReplies(provider, current_xuid_list[p]) :
          /\ BulkEffect(r, current_xuid_list[p]) = "remove"
          /\ current_xuid_list' =
                [current_xuid_list EXCEPT ![p] = Remove(@, r.description[2])]
          /\ pruned' = [pruned EXCEPT ![p] = @ \cup {r.description[2]}]
    /\ retries' = [retries EXCEPT ![p] = @ + 1]
    /\ bulkCalls' = [bulkCalls EXCEPT ![p] = @ + 1]
    /\ UNCHANGED <<fill, sem, cache, provider, invalidation, pc, handler, index, responses, result, task,
                   fbCalls, cuts, skipped>>

\* get_gamertags raises what run catches: backup_get_gamertags starts under
\* asyncio.wait_for and issues its first GET
BulkToFallback(p) ==
    /\ pc[p] = "bulk"
    /\ \E r \in BulkReplies(provider, current_xuid_list[p]) :
          BulkEffect(r, current_xuid_list[p]) \in CaughtByRun
    /\ pc' = [pc EXCEPT ![p] = "fallback"]
    /\ fbCalls' = [fbCalls EXCEPT ![p][index[p] + 1] = @ + 1]
    /\ UNCHANGED <<fill, sem, cache, provider, invalidation, handler, index, current_xuid_list, responses,
                   result, task, bulkCalls, cuts, pruned, skipped, retries>>

\* An error path that still hands the names gathered so far to the cache task.
BulkRaiseFlushing(p) ==
    /\ pc[p] = "bulk"
    /\ \E r \in BulkReplies(provider, current_xuid_list[p]) :
          BulkEffect(r, current_xuid_list[p]) = "OtherError"
    /\ LeaveIteration(p, "done")
    /\ result' = [result EXCEPT ![p] = [status |-> "raised", error |-> "bulk"]]
    /\ task' = [task EXCEPT ![p] =
          [st |-> "pending", pipe |-> PipeOf(responses[p], gather_devices_for[p])]]
    /\ UNCHANGED <<fill, cache, provider, invalidation, handler, index, responses,
                   bulkCalls, fbCalls, cuts, pruned, skipped>>

\* get_gamertags raises anything else: it leaves run through the async with
BulkRaise(p) ==
    /\ pc[p] = "bulk"
    /\ \E r \in BulkReplies(provider, current_xuid_list[p]) :
          BulkEffect(r, current_xuid_list[p]) \notin CaughtByRun \cup {"append", "remove"}
    /\ LeaveIteration(p, "done")
    /\ result' = [result EXCEPT ![p] = [status |-> "raised", error |-> "bulk"]]
    /\ UNCHANGED <<fill, cache, provider, invalidation, handler, index, responses, task,
                   bulkCalls, fbCalls, cuts, pruned, skipped>>

\* A fallback loop over the identifiers of the current window only.
AfterAttemptInWindow(p) ==
    /\ index' = [index EXCEPT ![p] = @ + 1]
    /\ IF /\ index[p] + 1 < Len(xuids_to_get[p])
          /\ xuids_to_get[p][index[p] + 2] \in Range(current_xuid_list[p])
       THEN /\ fbCalls' = [fbCalls EXCEPT ![p][index[p] + 2] = @ + 1]
            /\ UNCHANGED <<fill, sem, pc, current_xuid_list, retries>>
       ELSE /\ LeaveIteration(p, "loop")
            /\ UNCHANGED fbCalls

\* backup_get_gamertags after one identifier: self.index += 1, then the next GET,
\* or the end of the loop, of wait_for and of the async with block
AfterAttempt(p) ==
    /\ index' = [index EXCEPT ![p] = @ + 1]
    /\ IF index[p] + 1 < Len(xuids_to_get[p])
       THEN /\ fbCalls' = [fbCalls EXCEPT ![p][index[p] + 2] = @ + 1]
            /\ UNCHANGED <<fill, sem, pc, current_xuid_list, retries>>
       ELSE /\ LeaveIteration(p, "loop")
            /\ UNCHANGED fbCalls

\* What the "Gamertag" setting of an openxbl profile may hold (None: no such setting).
FallbackGamertags(mode) == IF mode = "mixed" THEN {"gA"} ELSE {"gB", "", None}

\* The fallback phases ended by the timeout so far, over the callers 1..n.
RECURSIVE TotalCuts(_)
TotalCuts(n) == IF n = 0 THEN 0 ELSE cuts[n] + TotalCuts(n - 1)

\* A timeout that lands between responses.append and self.index += 1.
FallbackResponseCut(p) ==
    /\ pc[p] = "fallback"
    /\ TotalCuts(NumCalls) < MaxCuts
    /\ \E g \in FallbackGamertags(provider) :
          responses' = [responses EXCEPT ![p] =
              Append(@, [kind |-> "profile", id |-> xuids_to_get[p][index[p] + 1],
                         gamertag |-> g])]
    /\ cuts' = [cuts EXCEPT ![p] = @ + 1]
    /\ LeaveIteration(p, "loop")
    /\ UNCHANGED <<fill, cache, provider, invalidation, handler, index, result, task,
                   bulkCalls, fbCalls, pruned, skipped>>

\* the GET answers with a profile: responses.append(ProfileResponse). The append,
\* the exit of the async with block and self.index += 1 are one step: the body of
\* the response has been read, and the __aexit__ of aiohttp_retry's request
\* context closes the response without awaiting anything, so wait_for's
\* cancellation has no await to arrive at before the next GET.
FallbackResponse(p) ==
    /\ pc[p] = "fallback"
    /\ \E g \in FallbackGamertags(provider) :
          responses' = [responses EXCEPT ![p] =
              Append(@, [kind |-> "profile", id |-> xuids_to_get[p][index[p] + 1],
                         gamertag |-> g])]
    /\ AfterAttempt(p)
    /\ UNCHANGED <<fill, cache, provider, invalidation, handler, result, task, bulkCalls, cuts, pruned, skipped>>

\* ContentTypeError, ClientResponseError or ValidationError: logged
FallbackSoftFail(p) ==
    /\ pc[p] = "fallback"
    /\ skipped' = [skipped EXCEPT ![p] = @ \cup {xuids_to_get[p][index[p] + 1]}]
    /\ AfterAttempt(p)
    /\ UNCHANGED <<fill, cache, provider, invalidation, handler, responses, result, task,
                   bulkCalls, cuts, pruned>>

\* A timeout that counts the identifier whose call it cut as attempted.
FallbackTimeoutSkipping(p) ==
    /\ pc[p] = "fallback"
    /\ TotalCuts(NumCalls) < MaxCuts
    /\ cuts' = [cuts EXCEPT ![p] = @ + 1]
    /\ index' = [index EXCEPT ![p] = @ + 1]
    /\ LeaveIteration(p, "loop")
    /\ UNCHANGED <<fill, cache, provider, invalidation, handler, responses,
                   result, task, bulkCalls, fbCalls, pruned, skipped>>

\* A timeout whose TimeoutError leaves run.
FallbackTimeoutRaising(p) ==
    /\ pc[p] = "fallback"
    /\ TotalCuts(NumCalls) < MaxCuts
    /\ cuts' = [cuts EXCEPT ![p] = @ + 1]
    /\ LeaveIteration(p, "done")
    /\ result' = [result EXCEPT ![p] = [status |-> "raised", error |-> "timeout"]]
    /\ UNCHANGED <<fill, cache, provider, invalidation, handler, index, responses,
                   task, bulkCalls, fbCalls, pruned, skipped>>

\* wait_for's 15 seconds end while a GET (or the read of its body) is awaited:
\* the phase is cancelled, TimeoutError is suppressed, the permit goes back
FallbackTimeout(p) ==
    /\ pc[p] = "fallback"
    /\ TotalCuts(NumCalls) < MaxCuts
    /\ cuts' = [cuts EXCEPT ![p] = @ + 1]
    /\ LeaveIteration(p, "loop")
    /\ UNCHANGED <<fill, cache, provider, invalidation, handler, index, responses,
                   result, task, bulkCalls, fbCalls, pruned, skipped>>

\* the GET raises anything else (a connection error): it leaves run
FallbackRaise(p) ==
    /\ pc[p] = "fallback"
    /\ LeaveIteration(p, "done")
    /\ result' = [result EXCEPT ![p] = [status |-> "raised", error |-> "fallback"]]
    /\ UNCHANGED <<fill, cache, provider, invalidation, handler, index, responses, task,
                   bulkCalls, fbCalls, cuts, pruned, skipped>>

\* the loop condition fails: the dict and the pipeline are built, the pipeline is handed to
\* bot.create_task and the dict is returned
Finish(p) ==
    /\ pc[p] = "loop"
    /\ ~(index[p] < Len(xuids_to_get[p]))
    /\ task' = [task EXCEPT ![p] =
          [st |-> "pending", pipe |-> PipeOf(responses[p], gather_devices_for[p])]]
    /\ result' = [result EXCEPT ![p] =
          [status |-> "returned", dict |-> DictOf(responses[p], gather_devices_for[p])]]
    /\ pc' = [pc EXCEPT ![p] = "done"]
    /\ UNCHANGED <<fill, sem, cache, provider, invalidation, handler, index, current_xuid_list, responses,
                   bulkCalls, fbCalls, cuts, pruned, skipped, retries>>

\* utils.msg_to_owner sends the text to the bot owner; the send can fail, and
\* the failure leaves msg_to_owner as an exception.
DeliveryCanFail == TRUE

\* The commands staged on the pipeline when msg_to_owner is first awaited: those
\* of the users before the first one whose device came from the heuristic.
StagedBeforeAudit(resps, gather) ==
    LET us == Users(resps, gather)
        first == CHOOSE i \in 1..Len(us) :
                    us[i].audit /\ \A j \in 1..(i - 1) : ~us[j].audit
    IN  FoldPipe(<<>>, SubSeq(us, 1, first - 1))

\* An except clause that hands what was staged so far to the cache task.
FinishAuditRaiseFlushing(p) ==
    /\ DeliveryCanFail
    /\ pc[p] = "loop"
    /\ ~(index[p] < Len(xuids_to_get[p]))
    /\ NeedsAudit(responses[p], gather_devices_for[p])
    /\ result' = [result EXCEPT ![p] = [status |-> "raised", error |-> "audit"]]
    /\ task' = [task EXCEPT ![p] =
          [st |-> "pending",
           pipe |-> StagedBeforeAudit(responses[p], gather_devices_for[p])]]
    /\ pc' = [pc EXCEPT ![p] = "done"]
    /\ UNCHANGED <<fill, sem, cache, provider, invalidation, handler, index, current_xuid_list, responses,
                   bulkCalls, fbCalls, cuts, pruned, skipped, retries>>

\* utils.msg_to_owner raises: except: await pipe.reset(); raise
FinishAuditRaise(p) ==
    /\ DeliveryCanFail
    /\ pc[p] = "loop"
    /\ ~(index[p] < Len(xuids_to_get[p]))
    /\ NeedsAudit(responses[p], gather_devices_for[p])
    /\ result' = [result EXCEPT ![p] = [status |-> "raised", error |-> "audit"]]
    /\ pc' = [pc EXCEPT ![p] = "done"]
    /\ UNCHANGED <<fill, sem, cache, provider, invalidation, handler, index, current_xuid_list, responses,
                   task, bulkCalls, fbCalls, cuts, pruned, skipped, retries>>

\* _execute_pipeline: pipe.execute() writes the staged commands
ExecutePipeline(p) ==
    /\ task[p].st = "pending"
    /\ cache' = ExecuteAll(cache, task[p].pipe)
    /\ task' = [task EXCEPT ![p].st = "executed"]
    /\ UNCHANGED <<fill, sem, provider, invalidation, pc, handler, index, current_xuid_list, responses,
                   result, bulkCalls, fbCalls, cuts, pruned, skipped, retries>>

\* A cache write whose failure reaches the caller of run.
ExecutePipelineRaiseSurfacing(p) ==
    /\ task[p].st = "pending"
    /\ task' = [task EXCEPT ![p].st = "failed"]
    /\ result' = [result EXCEPT ![p] = [status |-> "raised", error |-> "pipeline"]]
    /\ UNCHANGED <<fill, sem, cache, provider, invalidation, pc, handler, index, current_xuid_list,
                   responses, bulkCalls, fbCalls, cuts, pruned, skipped, retries>>

\* _execute_pipeline: pipe.execute() raises inside the detached task
ExecutePipelineRaise(p) ==
    /\ task[p].st = "pending"
    /\ task' = [task EXCEPT ![p].st = "failed"]
    /\ UNCHANGED <<fill, sem, cache, provider, invalidation, pc, handler, index, current_xuid_list,
                   responses, result, bulkCalls, fbCalls, cuts, pruned, skipped, retries>>

\* ------------------------------------- fill_in_gamertags_for_sessions()
\* The keys of {session.xuid: session for session in player_sessions}, in
\* insertion order: each xuid where it first occurs.
RECURSIVE DictKeys(_)
DictKeys(sessions) ==
    IF sessions = <<>> THEN <<>>
    ELSE LET before == DictKeys(SubSeq(sessions, 1, Len(sessions) - 1))
             x == sessions[Len(sessions)].xuid
         IN  IF x \in Range(before) THEN before ELSE Append(before, x)

\* session_dict[xuid]: the object stored last under the key (its place in the list).
DictSlot(sessions, x) ==
    CHOOSE i \in 1..Len(sessions) :
        /\ sessions[i].xuid = x
        /\ \A j \in (i + 1)..Len(sessions) : sessions[j].xuid # x

\* The pipelined GETs, one per session, and what pipeline.execute() returns.
PipelineKeys(sessions, bypass_for) ==
    [i \in 1..Len(sessions) |->
        IF sessions[i].xuid \notin bypass_for THEN sessions[i].xuid ELSE SENTINEL]

gamertag_list(c, sessions, bypass_for) ==
    [i \in 1..Len(sessions) |-> c[PipelineKeys(sessions, bypass_for)[i]]]

\* gamertag_list[index] for the index-th key of session_dict
CachedFor(glist, i) == glist[i]

\* The test the other way round: `if gamertag`.
Truthy(g) == ~(g = None \/ g = "")

\* Python's `not gamertag`
Falsy(g) == g = None \/ g = ""

\* for index, xuid in enumerate(session_dict.keys()): the objects after the loop
AfterCacheLoop(sessions, glist) ==
    LET keys == DictKeys(sessions)
    IN  [i \in 1..Len(sessions) |->
            IF \E k \in 1..Len(keys) : DictSlot(sessions, keys[k]) = i
            THEN LET k == CHOOSE k \in 1..Len(keys) : DictSlot(sessions, keys[k]) = i
                 IN  [sessions[i] EXCEPT !.gamertag = CachedFor(glist, k)]
            ELSE sessions[i]]

\* ... and the xuids it appended to unresolved
RECURSIVE Unresolved(_, _, _)
Unresolved(keys, glist, k) ==
    IF k > Len(keys) THEN <<>>
    ELSE (IF Falsy(CachedFor(glist, k)) THEN <<keys[k]>> ELSE <<>>)
         \o Unresolved(keys, glist, k + 1)

\* for xuid, gamertag_info in gamertag_dict.items(): the objects after the loop
AfterMerge(sessions, d) ==
    [i \in 1..Len(sessions) |->
        IF sessions[i].xuid \in DOMAIN d /\ DictSlot(sessions, sessions[i].xuid) = i
        THEN [sessions[i] EXCEPT !.gamertag = d[sessions[i].xuid].gamertag,
                                 !.device = d[sessions[i].xuid].device]
        ELSE sessions[i]]

\* list(session_dict.values()): the objects returned, by their place in the input
DictValues(sessions) ==
    LET keys == DictKeys(sessions)
    IN  [k \in 1..Len(keys) |-> DictSlot(sessions, keys[k])]

Returns(sessions) == [status |-> "returned", slots |-> DictValues(sessions)]

\* the call with bypass_cache false, up to `await gamertag_handler.run()` or,
\* with nothing unresolved, to its return
FillFromCache(p) ==
    /\ pc[p] = "fill"
    /\ ~bypass_cache[p]
    /\ seen' = [seen EXCEPT ![p] = cache]
    /\ LET glist == gamertag_list(cache, player_sessions[p], bypass_cache_for[p])
           unresolved == Unresolved(DictKeys(player_sessions[p]), glist, 1)
       IN  /\ player_sessions' =
                [player_sessions EXCEPT ![p] = AfterCacheLoop(@, glist)]
           /\ IF unresolved # <<>>
              THEN /\ xuids_to_get' = [xuids_to_get EXCEPT ![p] = post_init(unresolved)]
                   /\ gather_devices_for' =
                        [gather_devices_for EXCEPT ![p] = bypass_cache_for[p]]
                   /\ pc' = [pc EXCEPT ![p] = "loop"]
                   /\ UNCHANGED returned
              ELSE /\ returned' = [returned EXCEPT ![p] = Returns(player_sessions[p])]
                   /\ pc' = [pc EXCEPT ![p] = "returned"]
                   /\ UNCHANGED handler
    /\ UNCHANGED <<sem, cache, provider, invalidation, index, current_xuid_list, responses, result,
                   task, bulkCalls, fbCalls, cuts, pruned, skipped, retries, entry,
                   bypass_cache, bypass_cache_for, pred>>

\* A bypass that keeps the bypass_cache_for of the caller.
CallerInterest(unresolved, bypass_for) == bypass_for

\* bypass_cache_for = set(unresolved)
BypassInterest(unresolved, bypass_for) == Range(unresolved)

\* the call with bypass_cache true, up to `await gamertag_handler.run()` or,
\* for no sessions, to its return
FillBypass(p) ==
    /\ pc[p] = "fill"
    /\ bypass_cache[p]
    /\ seen' = [seen EXCEPT ![p] = cache]
    /\ LET unresolved == DictKeys(player_sessions[p])
       IN  IF unresolved # <<>>
           THEN /\ xuids_to_get' = [xuids_to_get EXCEPT ![p] = post_init(unresolved)]
                /\ gather_devices_for' =
                        [gather_devices_for EXCEPT ![p] =
                            BypassInterest(unresolved, bypass_cache_for[p])]
                /\ pc' = [pc EXCEPT ![p] = "loop"]
                /\ UNCHANGED returned
           ELSE /\ returned' = [returned EXCEPT ![p] = Returns(player_sessions[p])]
                /\ pc' = [pc EXCEPT ![p] = "returned"]
                /\ UNCHANGED handler
    /\ UNCHANGED <<sem, cache, provider, invalidation, index, current_xuid_list, responses, result,
                   task, bulkCalls, fbCalls, cuts, pruned, skipped, retries, entry,
                   player_sessions, bypass_cache, bypass_cache_for, pred>>

\* run() has returned its dict: the merge loop and the return
FillMerge(p) ==
    /\ pc[p] = "done"
    /\ entry[p] = "fill"
    /\ result[p].status = "returned"
    /\ player_sessions' = [player_sessions EXCEPT ![p] = AfterMerge(@, result[p].dict)]
    /\ returned' = [returned EXCEPT ![p] = Returns(player_sessions[p])]
    /\ pc' = [pc EXCEPT ![p] = "returned"]
    /\ UNCHANGED <<sem, cache, provider, invalidation, handler, index, current_xuid_list, responses,
                   result, task, bulkCalls, fbCalls, cuts, pruned, skipped, retries, entry,
                   bypass_cache, bypass_cache_for, pred, seen>>

\* run() has raised: the exception leaves fill_in_gamertags_for_sessions
FillRaise(p) ==
    /\ pc[p] = "done"
    /\ entry[p] = "fill"
    /\ result[p].status = "raised"
    /\ returned' = [returned EXCEPT ![p] = [status |-> "raised"]]
    /\ pc' = [pc EXCEPT ![p] = "returned"]
    /\ UNCHANGED <<sem, cache, provider, invalidation, handler, index, current_xuid_list, responses,
                   result, task, bulkCalls, fbCalls, cuts, pruned, skipped, retries, entry,
                   player_sessions, bypass_cache, bypass_cache_for, pred, seen>>

\* The caller of p calls again, once p's call has returned, with the same objects
\* and arguments (the call is q's).
FillAgain(p, q) ==
    /\ pc[p] = "returned"
    /\ returned[p].status = "returned"
    /\ pc[q] = "idle"
    /\ p = 1 /\ q = 2
    /\ pc' = [pc EXCEPT ![q] = "fill"]
    /\ entry' = [entry EXCEPT ![q] = "fill"]
    /\ player_sessions' = [player_sessions EXCEPT ![q] = player_sessions[p]]
    /\ bypass_cache' = [bypass_cache EXCEPT ![q] = bypass_cache[p]]
    /\ bypass_cache_for' = [bypass_cache_for EXCEPT ![q] = bypass_cache_for[p]]
    /\ pred' = [pred EXCEPT ![q] = p]
    /\ UNCHANGED <<sem, cache, provider, invalidation, handler, index, current_xuid_list, responses,
                   result, task, bulkCalls, fbCalls, cuts, pruned, skipped, retries, returned,
                   seen>>

\* The records fill_in_gamertags_for_sessions returned, as they are now.
Output(p) ==
    [k \in 1..Len(returned[p].slots) |-> player_sessions[p][returned[p].slots[k]]]

\* The task running run() is cancelled from outside: CancelledError is raised at
\* the await it is suspended in (the acquire, a bulk or a fallback call) and
\* leaves run; inside the async with block the permit goes back.
Cancel(p) ==
    /\ pc[p] \in {"loop", "bulk", "fallback"}
    /\ pc[p] = "loop" => index[p] < Len(xuids_to_get[p])
    /\ IF pc[p] = "loop"
       THEN /\ pc' = [pc EXCEPT ![p] = "done"]
            /\ UNCHANGED <<sem, current_xuid_list, retries>>
       ELSE LeaveIteration(p, "done")
    /\ result' = [result EXCEPT ![p] = [status |-> "raised", error |-> "cancelled"]]
    /\ UNCHANGED <<fill, cache, provider, invalidation, handler, index, responses, task,
                   bulkCalls, fbCalls, cuts, pruned, skipped>>

\* The task is cancelled while run awaits msg_to_owner, the one await between
\* the creation of the pipeline and create_task: the bare except catches
\* CancelledError, resets the pipeline and raises it again.
FinishCancel(p) ==
    /\ pc[p] = "loop"
    /\ ~(index[p] < Len(xuids_to_get[p]))
    /\ NeedsAudit(responses[p], gather_devices_for[p])
    /\ result' = [result EXCEPT ![p] = [status |-> "raised", error |-> "cancelled"]]
    /\ pc' = [pc EXCEPT ![p] = "done"]
    /\ UNCHANGED <<fill, sem, cache, provider, invalidation, handler, index, current_xuid_list, responses,
                   task, bulkCalls, fbCalls, cuts, pruned, skipped, retries>>

RunStep(p) ==
    \/ StartIteration(p)
    \/ BulkSuccess(p)
    \/ BulkRemove(p)
    \/ BulkToFallback(p)
    \/ BulkRaise(p)
    \/ FallbackResponse(p)
    \/ FallbackSoftFail(p)
    \/ FallbackTimeout(p)
    \/ FallbackRaise(p)
    \/ Finish(p)
    \/ FinishAuditRaise(p)
    \/ ExecutePipeline(p)
    \/ ExecutePipelineRaise(p)

Next == \E p \in Procs : RunStep(p)

\* One call of run(), for every behaviour of the bulk provider.
Spec == Init /\ [][Next]_vars

\* One call of run() whose task can be cancelled from outside.
NextCancel ==
    \E p \in Procs :
        \/ RunStep(p)
        \/ Cancel(p)
        \/ FinishCancel(p)

SpecCancel == Init /\ [][NextCancel]_vars

\* ------------------------------------------------- concurrent run() calls
\* Every caller has built a handler for one identifier on the shared semaphore.
InitGate ==
    /\ sem = Permits
    /\ cache = EmptyCache
    /\ provider = "mixed"
    /\ xuids_to_get = [p \in Procs |-> <<"x1">>]
    /\ gather_devices_for = [p \in Procs |-> {}]
    /\ pc = [p \in Procs |-> "loop"]
    /\ NoHandler
    /\ GuildAtRest
    /\ entry = [p \in Procs |-> "run"]
    /\ NoFill

\* With plain profiles no presence entry matches, so msg_to_owner is never awaited.
GateStep(p) ==
    \/ StartIteration(p)
    \/ BulkSuccess(p)
    \/ BulkRemove(p)
    \/ BulkToFallback(p)
    \/ BulkRaise(p)
    \/ FallbackResponse(p)
    \/ FallbackSoftFail(p)
    \/ FallbackTimeout(p)
    \/ FallbackRaise(p)
    \/ Cancel(p)
    \/ Finish(p)
    \/ ExecutePipeline(p)
    \/ ExecutePipelineRaise(p)

NextGate == \E p \in Procs : GateStep(p)

SpecGate == InitGate /\ [][NextGate]_vars

\* The provider call p is in comes back: with a response, an error or, for the
\* fallback phase, the timeout of wait_for. (A GET whose failure is logged moves
\* on as one with a response does.)
ProviderReturns(p) ==
    \/ BulkSuccess(p)
    \/ BulkRemove(p)
    \/ BulkToFallback(p)
    \/ BulkRaise(p)
    \/ FallbackResponse(p)
    \/ FallbackTimeout(p)
    \/ FallbackRaise(p)

\* Concurrent run() calls on an event loop that runs every task that can run:
\* a caller whose acquire can go on does go on, and provider calls come back.
\* (The detached cache tasks take no part in the gate and are left to rest.)
LiveStep(p) ==
    \/ StartIteration(p)
    \/ ProviderReturns(p)
    \/ Finish(p)

NextLive == \E p \in Procs : LiveStep(p)

SpecLive ==
    /\ InitGate
    /\ [][NextLive]_vars
    /\ \A p \in Procs : WF_vars(StartIteration(p)) /\ WF_vars(ProviderReturns(p))

\* ------------------------------ run() beside the gamertag-from-xuid command
\* gamertag_from_xuid: the two SETEX commands staged for the name it resolved.
CommandPipe(x, g) ==
    << <<x, g, EXPIRE_GAMERTAGS_AT>>, <<"rpl-" \o g, x, EXPIRE_GAMERTAGS_AT>> >>

\* gamertag_from_xuid for an xuid the cache holds no name for: a provider
\* answers with a profile and the pair is written through a pipeline of its own.
\* (When execute raises the command ends with nothing written: no step.)
gamertag_from_xuid(x, g) ==
    /\ Falsy(cache[x])
    /\ cache' = ExecuteAll(cache, CommandPipe(x, g))
    /\ UNCHANGED <<fill, sem, provider, invalidation, pc, handler, index, current_xuid_list,
                   responses, result, task, bulkCalls, fbCalls, cuts, pruned, skipped,
                   retries>>

InitPair ==
    /\ sem = Permits
    /\ cache = EmptyCache
    /\ provider = "some"
    /\ \E raw \in RawInputs(MaxXuids), g \in {{}, Xuids} :
          /\ xuids_to_get = [p \in Procs |-> IF p = 1 THEN post_init(raw) ELSE <<>>]
          /\ gather_devices_for = [p \in Procs |-> IF p = 1 THEN g ELSE {}]
    /\ pc = [p \in Procs |-> IF p = 1 THEN "loop" ELSE "idle"]
    /\ NoHandler
    /\ GuildAtRest
    /\ entry = [p \in Procs |-> "run"]
    /\ NoFill

\* run() under a bulk provider that always succeeds
PairStep(p) ==
    \/ StartIteration(p)
    \/ BulkSuccess(p)
    \/ Finish(p)
    \/ FinishAuditRaise(p)
    \/ ExecutePipeline(p)
    \/ ExecutePipelineRaise(p)

NextPair ==
    \/ \E p \in Procs : PairStep(p)
    \/ \E x \in Xuids, g \in Gamertags : gamertag_from_xuid(x, g)

SpecPair == InitPair /\ [][NextPair]_vars

\* --------------------------------- run() for one user with a presence list
InitDevice ==
    /\ sem = Permits
    /\ cache = EmptyCache
    /\ provider = "presence"
    /\ xuids_to_get = [p \in Procs |-> IF p = 1 THEN <<"x1">> ELSE <<>>]
    /\ \E g \in {{}, {"x1"}} :
          gather_devices_for = [p \in Procs |-> IF p = 1 THEN g ELSE {}]
    /\ pc = [p \in Procs |-> IF p = 1 THEN "loop" ELSE "idle"]
    /\ NoHandler
    /\ GuildAtRest
    /\ entry = [p \in Procs |-> "run"]
    /\ NoFill

DeviceStep(p) ==
    \/ StartIteration(p)
    \/ BulkSuccess(p)
    \/ Finish(p)
    \/ FinishAuditRaise(p)
    \/ ExecutePipeline(p)
    \/ ExecutePipelineRaise(p)

NextDevice == \E p \in Procs : DeviceStep(p)

SpecDevice == InitDevice /\ [][NextDevice]_vars

\* ------------------------------------- one fill_in_gamertags_for_sessions
\* Longest list of sessions handed to fill_in_gamertags_for_sessions.
MaxSessions == 3

\* Lists of sessions, several of them possibly of one xuid (the xuids named in
\* the order they first occur); every object carries the same gamertag on input.
SessionInputs ==
    {[i \in 1..Len(xs) |-> [xuid |-> xs[i], gamertag |-> g, device |-> None]] :
        xs \in {ys \in UNION {[1..k -> Xuids] : k \in 0..MaxSessions} :
                  \A i \in 1..Len(DictKeys([j \in 1..Len(ys) |-> [xuid |-> ys[j]]])) :
                     DictKeys([j \in 1..Len(ys) |-> [xuid |-> ys[j]]])[i] = XuidNames[i]},
        g \in {None, "gOld"}}

\* The name the cache holds for an xuid, when it holds one.
CachedName(x) ==
    CASE x = "x1" -> "c1" [] x = "x2" -> "c2" [] x = "x3" -> "c3"
      [] x = "x4" -> "c4" [] OTHER -> "c5"

CacheWith(hits) == [k \in Keys |-> IF k \in hits THEN CachedName(k) ELSE None]

SessionXuids(sessions) == {sessions[i].xuid : i \in 1..Len(sessions)}

InitFillWith(modes, full) ==
    /\ sem = Permits
    /\ provider \in modes
    /\ \E ss \in SessionInputs, b \in BOOLEAN, bf \in GatherOptions :
          /\ player_sessions = [p \in Procs |-> IF p = 1 THEN ss ELSE <<>>]
          /\ bypass_cache = [p \in Procs |-> IF p = 1 THEN b ELSE FALSE]
          /\ bypass_cache_for = [p \in Procs |-> IF p = 1 THEN bf ELSE {}]
          /\ \E hits \in (IF full THEN {SessionXuids(ss)}
                          ELSE IF b THEN {{}, SessionXuids(ss)}
                          ELSE SUBSET SessionXuids(ss)) :
                cache = CacheWith(hits)
    /\ xuids_to_get = [p \in Procs |-> <<>>]
    /\ gather_devices_for = [p \in Procs |-> {}]
    /\ pc = [p \in Procs |-> IF p = 1 THEN "fill" ELSE "idle"]
    /\ NoHandler
    /\ GuildAtRest
    /\ entry = [p \in Procs |-> IF p = 1 THEN "fill" ELSE "run"]
    /\ returned = [p \in Procs |-> NotReturned]
    /\ pred = [p \in Procs |-> 0]
    /\ seen = [p \in Procs |-> EmptyCache]

InitFill == InitFillWith({"some"}, FALSE)

\* run() under a bulk provider that always succeeds
FillStep(p) ==
    \/ FillFromCache(p)
    \/ FillBypass(p)
    \/ FillMerge(p)
    \/ FillRaise(p)
    \/ StartIteration(p)
    \/ BulkSuccess(p)
    \/ Finish(p)
    \/ FinishAuditRaise(p)
    \/ ExecutePipeline(p)
    \/ ExecutePipelineRaise(p)

NextFill == \E p \in Procs : FillStep(p)

SpecFill == InitFill /\ [][NextFill]_vars

\* ------------------------ two successive calls on a fully populated cache
InitTwice == InitFillWith({"steady"}, TRUE)

TwiceStep(p) ==
    \/ FillFromCache(p)
    \/ FillBypass(p)
    \/ FillMerge(p)
    \/ StartIteration(p)
    \/ BulkSuccess(p)
    \/ Finish(p)
    \/ ExecutePipeline(p)
    \/ ExecutePipelineRaise(p)

NextTwice ==
    \/ \E p \in Procs : TwiceStep(p)
    \/ \E p, q \in Procs : FillAgain(p, q)

SpecTwice == InitTwice /\ [][NextTwice]_vars

\* ------------------------------------------------ eventually_invalidate()
run_state == <<sem, cache, provider, pc, xuids_to_get, gather_devices_for, index,
               current_xuid_list, responses, result, task, bulkCalls, fbCalls,
               cuts, pruned, skipped, retries>>

\* fetch_playerlist_channel: guild.fetch_channel(config.playerlist_chan) fails
\* with a status below 500, or finds no channel; eventually_invalidate is called
\* and (TEST_MODE off) awaits bot.redis.get. With playerlist_chan None the fetch
\* raises TypeError and nothing is recorded.
FetchFails(c) ==
    /\ ipc[c] = "idle"
    /\ guild_config.playerlist_chan # None
    /\ ~TEST_MODE
    /\ ipc' = [ipc EXCEPT ![c] = "get"]
    /\ UNCHANGED <<run_state, fill, guild_config, live_playerlist_store,
                   invalid_playerlist, num_times, old_live_playerlist>>

\* `or "0"` for a key that is not there
OrZero(v) == IF v = None THEN "0" ELSE v

\* the GET comes back: int_num_times = int(num_times) + 1, and the branch up to
\* its first await (guild_config.save() or bot.redis.set)
InvGet(c) ==
    /\ ipc[c] = "get"
    /\ LET read == OrZero(invalid_playerlist)
       IN  /\ num_times' = [num_times EXCEPT ![c] = read]
           /\ IF ToInt(read) + 1 >= limit
              THEN /\ guild_config' = [guild_config EXCEPT !.playerlist_chan = None,
                                                           !.live_playerlist = FALSE]
                   /\ old_live_playerlist' =
                        [old_live_playerlist EXCEPT ![c] = guild_config.live_playerlist]
                   /\ ipc' = [ipc EXCEPT ![c] = "save"]
              ELSE /\ ipc' = [ipc EXCEPT ![c] = "set"]
                   /\ UNCHANGED <<guild_config, old_live_playerlist>>
    /\ UNCHANGED <<run_state, fill, live_playerlist_store, invalid_playerlist>>

\* await bot.redis.set(key, str(int_num_times), ex=limit * 86400); the call ends
InvSet(c) ==
    /\ ipc[c] = "set"
    /\ invalid_playerlist' = ToStr(ToInt(num_times[c]) + 1)
    /\ ipc' = [ipc EXCEPT ![c] = "done"]
    /\ UNCHANGED <<run_state, fill, guild_config, live_playerlist_store, num_times,
                   old_live_playerlist>>

\* await guild_config.save() comes back; bot.redis.delete is awaited
InvSave(c) ==
    /\ ipc[c] = "save"
    /\ ipc' = [ipc EXCEPT ![c] = "delete"]
    /\ UNCHANGED <<run_state, fill, guild_config, live_playerlist_store,
                   invalid_playerlist, num_times, old_live_playerlist>>

\* await bot.redis.delete(key) comes back; the guild leaves the store when it
\* has a realm and live_playerlist was on; the call ends
InvDelete(c) ==
    /\ ipc[c] = "delete"
    /\ invalid_playerlist' = None
    /\ live_playerlist_store' =
          IF guild_config.realm_id # None /\ old_live_playerlist[c]
          THEN live_playerlist_store \ {"g1"}
          ELSE live_playerlist_store
    /\ ipc' = [ipc EXCEPT ![c] = "done"]
    /\ UNCHANGED <<run_state, fill, guild_config, num_times, old_live_playerlist>>

InitInvalidate ==
    /\ sem = Permits
    /\ cache = EmptyCache
    /\ provider = "ok"
    /\ xuids_to_get = [p \in Procs |-> <<>>]
    /\ gather_devices_for = [p \in Procs |-> {}]
    /\ pc = [p \in Procs |-> "idle"]
    /\ NoHandler
    /\ entry = [p \in Procs |-> "run"]
    /\ NoFill
    /\ NoInvalidation

InvalidateStep(c) ==
    \/ FetchFails(c)
    \/ InvGet(c)
    \/ InvSet(c)
    \/ InvSave(c)
    \/ InvDelete(c)

NextInvalidate == \E c \in Failures : InvalidateStep(c)

\* Failing fetch_playerlist_channel calls for one guild, interleaved at their awaits.
SpecInvalidate == InitInvalidate /\ [][NextInvalidate]_vars

\* ------------------------------------------------------------ properties
InProviderCall(p) == pc[p] \in {"bulk", "fallback"}
WaitsForPermit(p) == pc[p] = "loop" /\ index[p] < Len(xuids_to_get[p])
Returned(p) == result[p].status = "returned"
Raised(p) == result[p].status = "raised"
CallsMade(p) == {i \in 1..MaxXuids : fbCalls[p][i] > 0}

RECURSIVE SumCalls(_, _)
SumCalls(f, n) == IF n = 0 THEN 0 ELSE f[n] + SumCalls(f, n - 1)

\* C1: with Permits permits shared by all callers, at most Permits callers are
\* inside a bulk or fallback provider call, and every caller inside one accounts
\* for one permit taken from the semaphore (none is in a call without its permit).
C1_GateBound ==
    /\ sem \in 0..Permits
    /\ Cardinality({p \in Procs : InProviderCall(p)}) <= Permits
    /\ Cardinality({p \in Procs : InProviderCall(p)}) = Permits - sem

\* C1 witness: every permit is out and another caller waits for one.
C1_Witness ==
    /\ sem = 0
    /\ Cardinality({p \in Procs : InProviderCall(p)}) = Permits
    /\ \E q \in Procs : WaitsForPermit(q)

\* C2: when get_gamertags raises an error run does not catch, in any window, run
\* ends raising it: it returns no dict, no pipeline was staged or dispatched and
\* the cache is as it was before the call.
C2_AbortLeavesNoTrace ==
    \A p \in Procs :
        (Raised(p) /\ result[p].error = "bulk") =>
            /\ pc[p] = "done"
            /\ DOMAIN result[p] = {"status", "error"}
            /\ task[p] = NoTask
            /\ cache = EmptyCache

\* C2 witness: the error comes after an earlier window was resolved.
C2_Witness ==
    \E p \in Procs :
        /\ Raised(p) /\ result[p].error = "bulk"
        /\ responses[p] # <<>>
        /\ index[p] > 0

C4_Original ==
    \A p \in Procs :
        (provider = "ok" /\ Len(xuids_to_get[p]) <= AMOUNT_TO_GET /\ pc[p] = "done") =>
            /\ bulkCalls[p] = 1
            /\ CallsMade(p) = {}
            /\ Returned(p)
            /\ DOMAIN result[p].dict = Range(xuids_to_get[p])

\* C4 as amended: for at least one and at most a window of identifiers and a bulk
\* provider that always succeeds, the finished call made exactly one bulk call and
\* no fallback call; it returned a dict with every input identifier, or it raised
\* what msg_to_owner raised.
C4_OneBulkCall ==
    \A p \in Procs :
        (/\ provider = "ok"
         /\ xuids_to_get[p] # <<>>
         /\ Len(xuids_to_get[p]) <= AMOUNT_TO_GET
         /\ pc[p] = "done") =>
            /\ bulkCalls[p] = 1
            /\ CallsMade(p) = {}
            /\ Returned(p) => DOMAIN result[p].dict = Range(xuids_to_get[p])
            /\ Raised(p) => result[p].error = "audit"

\* C4 witness: a full window resolved by its one bulk call.
C4_Witness ==
    \E p \in Procs :
        /\ provider = "ok" /\ Returned(p)
        /\ Len(xuids_to_get[p]) = AMOUNT_TO_GET
        /\ DOMAIN result[p].dict = Range(xuids_to_get[p])

\* C5: under a bulk provider that reports one invalid identifier of the list per
\* call (or succeeds), the list of the pending bulk call is the window without
\* exactly the identifiers reported, after at most (window size) retries; an
\* identifier reported invalid is in no later list, gets no fallback call and is
\* not in the returned dict.
C5_PruneConverges ==
    \A p \in Procs :
        provider = "invalid" =>
            /\ CallsMade(p) = {}
            /\ pc[p] = "bulk" =>
                  LET w == Window(xuids_to_get[p], index[p])
                  IN  /\ retries[p] <= Len(w)
                      /\ Len(current_xuid_list[p]) = Len(w) - retries[p]
                      /\ Range(current_xuid_list[p]) = Range(w) \ pruned[p]
                      /\ Cardinality(Range(w) \cap pruned[p]) = retries[p]
            /\ Returned(p) =>
                  /\ DOMAIN result[p].dict = Range(xuids_to_get[p]) \ pruned[p]
                  /\ bulkCalls[p] <= Len(xuids_to_get[p]) + Cardinality(pruned[p])

\* C5 witness: a call returned names after an identifier of a two-identifier
\* window was removed.
C5_Witness ==
    \E p \in Procs :
        /\ provider = "invalid" /\ Returned(p)
        /\ pruned[p] # {}
        /\ DOMAIN result[p].dict # {}
        /\ Len(xuids_to_get[p]) > AMOUNT_TO_GET

\* C6: the step in which the timeout ends a fallback phase raises nothing and
\* leaves the cursor where the phase had brought it, and the next provider call
\* of a caller between iterations is a bulk call for the window at its cursor.
C6_TimeoutResumesBulk ==
    [][\A p \in Procs :
          /\ cuts'[p] # cuts[p] =>
                /\ index'[p] = index[p]
                /\ result'[p] = Running
                /\ pc'[p] = "loop"
                /\ index'[p] < Len(xuids_to_get[p])
          /\ (pc[p] = "loop" /\ (bulkCalls'[p] # bulkCalls[p] \/ fbCalls'[p] # fbCalls[p])) =>
                /\ bulkCalls'[p] = bulkCalls[p] + 1
                /\ fbCalls'[p] = fbCalls[p]
                /\ index'[p] = index[p]
                /\ current_xuid_list'[p] = Window(xuids_to_get[p], index[p])
                /\ pc'[p] = "bulk"]_vars

\* C6 witness: after a phase that advanced the cursor was cut, the bulk call for
\* the window at the advanced cursor is pending.
C6_Witness ==
    \E p \in Procs :
        /\ cuts[p] > 0
        /\ pc[p] = "bulk"
        /\ index[p] > 0
        /\ current_xuid_list[p] = Window(xuids_to_get[p], index[p])
        /\ result[p] = Running

\* C7: once the pipeline is handed to the detached task the call has returned,
\* and what it returned is the dict of its responses whether the task is pending,
\* has executed or has failed.
C7_ReturnIgnoresWriteBack ==
    \A p \in Procs :
        task[p].st # "none" =>
            /\ task[p].st \in {"pending", "executed", "failed"}
            /\ pc[p] = "done"
            /\ Returned(p)
            /\ result[p].dict = DictOf(responses[p], gather_devices_for[p])

\* C7 witness: the write-back of a call that returned names has failed.
C7_Witness ==
    \E p \in Procs :
        /\ task[p].st = "failed"
        /\ task[p].pipe # <<>>
        /\ Returned(p)
        /\ DOMAIN result[p].dict # {}

\* C8 as stated: after the call all input records of one identifier carry the
\* same name and device.
C8_Original ==
    \A p \in Procs :
        returned[p].status = "returned" =>
            \A i, j \in 1..Len(player_sessions[p]) :
                player_sessions[p][i].xuid = player_sessions[p][j].xuid =>
                    /\ player_sessions[p][i].gamertag = player_sessions[p][j].gamertag
                    /\ player_sessions[p][i].device = player_sessions[p][j].device

\* C9 as stated: every input record is in the returned list.
C9_Original ==
    \A p \in Procs :
        returned[p].status = "returned" =>
            \A i \in 1..Len(player_sessions[p]) : i \in Range(returned[p].slots)

\* The cache c holds a name for every identifier of the sessions.
FullFor(c, sessions) == \A x \in SessionXuids(sessions) : c[x] \notin {None, ""}

\* q repeats an earlier call that began on a full cache, and began on that cache.
SecondCallOnFullCache(q) ==
    /\ pred[q] # 0
    /\ pc[q] # "fill"
    /\ FullFor(seen[pred[q]], player_sessions[q])
    /\ seen[q] = seen[pred[q]]

\* C10 as stated: the second of two calls on a fully populated, unchanged cache
\* issues no provider call and returns what the first returned.
C10_Original ==
    \A q \in Procs :
        SecondCallOnFullCache(q) =>
            /\ bulkCalls[q] = 0
            /\ CallsMade(q) = {}
            /\ returned[q].status = "returned" => Output(q) = Output(pred[q])

\* C10 as amended: with bypass_cache false and no identifier of the records in
\* bypass_cache_for, the second of two calls on a fully populated, unchanged cache
\* issues no provider call and returns what the first returned.
C10_SecondCallCached ==
    \A q \in Procs :
        (/\ SecondCallOnFullCache(q)
         /\ ~bypass_cache[q]
         /\ SessionXuids(player_sessions[q]) \cap bypass_cache_for[q] = {}) =>
            /\ bulkCalls[q] = 0
            /\ CallsMade(q) = {}
            /\ pc[q] = "returned"
            /\ returned[q].status = "returned"
            /\ Output(q) = Output(pred[q])

\* C10 witness: the second call over several identifiers has returned from the cache.
C10_Witness ==
    \E q \in Procs :
        /\ SecondCallOnFullCache(q)
        /\ ~bypass_cache[q]
        /\ SessionXuids(player_sessions[q]) \cap bypass_cache_for[q] = {}
        /\ returned[q].status = "returned"
        /\ Len(returned[q].slots) >= 2

\* The name fill_in_gamertags_for_sessions owes the record at place i of p's
\* list: the cached one on a cache hit, else the one run() returned, else none.
CacheHit(p, x) ==
    /\ ~bypass_cache[p]
    /\ x \notin bypass_cache_for[p]
    /\ seen[p][x] \notin {None, ""}

NameOwed(p, x) ==
    IF CacheHit(p, x) THEN seen[p][x]
    ELSE IF Returned(p) /\ x \in DOMAIN result[p].dict THEN result[p].dict[x].gamertag
    ELSE None

\* C11 as stated, for lists in which no two records share an identifier: after
\* the call every record of a cache hit has the cached name, every other record
\* the name run() returned for its identifier, or none if run() returned nothing
\* for it, with bypass_cache false and true.
C11_Original ==
    \A p \in Procs :
        (/\ returned[p].status = "returned"
         /\ Len(DictKeys(player_sessions[p])) = Len(player_sessions[p])) =>
            \A i \in 1..Len(player_sessions[p]) :
                player_sessions[p][i].gamertag = NameOwed(p, player_sessions[p][i].xuid)

\* The places of the staged commands that write key k, and the last of them.
StagedFor(pipe, k) == {i \in 1..Len(pipe) : pipe[i][1] = k}
LastStagedFor(pipe, k) ==
    CHOOSE i \in StagedFor(pipe, k) : \A j \in StagedFor(pipe, k) : j <= i

\* p's detached task runs pipe.execute() in this step.
WriteBackCompletes(p) == task[p].st = "pending" /\ task'[p].st = "executed"

\* C12 as stated: once the write-back of a call has completed, for every pair
\* (xuid, gamertag) of its dict the forward key holds the gamertag and the
\* reverse key of the gamertag holds that xuid.
C12_Original ==
    \A p \in Procs :
        task[p].st = "executed" =>
            \A x \in DOMAIN result[p].dict :
                /\ cache[x] = result[p].dict[x].gamertag
                /\ cache["rpl-" \o result[p].dict[x].gamertag] = x

\* C12 as amended: the step that completes a write-back leaves every key it did
\* not stage as it was and every staged key with the value staged last for it;
\* so the forward key of every pair holds its gamertag, and the reverse key of a
\* gamertag holds an xuid written with that gamertag: the pair's own xuid when no
\* other xuid of the write-back has the same gamertag. Nothing else writes the cache.
C12_RoundTripLastWriter ==
    [][/\ \A p \in Procs :
            WriteBackCompletes(p) =>
                LET d == result[p].dict
                    pipe == task[p].pipe
                IN  /\ \A k \in Keys :
                          cache'[k] = IF StagedFor(pipe, k) = {} THEN cache[k]
                                      ELSE pipe[LastStagedFor(pipe, k)][2]
                    /\ \A x \in DOMAIN d :
                          /\ cache'[x] = d[x].gamertag
                          /\ cache'["rpl-" \o d[x].gamertag] \in
                                {y \in DOMAIN d : d[y].gamertag = d[x].gamertag}
                          /\ (\A y \in DOMAIN d \ {x} : d[y].gamertag # d[x].gamertag)
                                => cache'["rpl-" \o d[x].gamertag] = x
       /\ cache' # cache => \E p \in Procs : WriteBackCompletes(p)]_vars

\* C12 witness: a write-back of two pairs with different gamertags has completed
\* and both round trips hold.
C12_Witness ==
    \E p \in Procs :
        /\ task[p].st = "executed"
        /\ \E x, y \in DOMAIN result[p].dict :
              /\ result[p].dict[x].gamertag # result[p].dict[y].gamertag
              /\ cache[x] = result[p].dict[x].gamertag
              /\ cache[y] = result[p].dict[y].gamertag
              /\ cache["rpl-" \o cache[x]] = x
              /\ cache["rpl-" \o cache[y]] = y

\* The presence lists the bulk responses of p's call hold for xuid x.
PresenceOf(p, x) ==
    UNION {{responses[p][n].people[i].presence_details :
               i \in {j \in 1..Len(responses[p][n].people) :
                        responses[p][n].people[j].xuid = x}} :
           n \in {k \in 1..Len(responses[p]) : responses[p][k].kind = "people"}}

\* A presence entry that qualifies: primary, and of an allow-listed title or
\* with a text matching the heuristic.
Qualifying(e) ==
    /\ e.is_primary
    /\ \/ e.title_id \in MINECRAFT_TITLE_IDS
       \/ ContainsMinecraftFor(Lower(e.presence_text))

\* C13: in the returned dict a device is never the empty string, and an entry
\* has a device only if its xuid is in gather_devices_for and a bulk response
\* holds for it a qualifying presence entry with that device; every other
\* entry (not in gather_devices_for, no qualifying entry, from the fallback)
\* has none.
C13_HintOnlyWhenQualified ==
    \A p \in Procs :
        Returned(p) =>
            \A x \in DOMAIN result[p].dict :
                /\ result[p].dict[x].device # ""
                /\ result[p].dict[x].device # None =>
                      /\ x \in gather_devices_for[p]
                      /\ \E pd \in PresenceOf(p, x) : \E j \in 1..Len(pd) :
                            /\ Qualifying(pd[j])
                            /\ pd[j].device = result[p].dict[x].device

\* C13 witness: of two users with a qualifying presence entry, the one in
\* gather_devices_for has a device and the other has none.
C13_Witness ==
    \E p \in Procs :
        /\ Returned(p)
        /\ \E x, y \in DOMAIN result[p].dict :
              /\ x \in gather_devices_for[p]
              /\ result[p].dict[x].device \notin {None, ""}
              /\ y \notin gather_devices_for[p]
              /\ result[p].dict[y].device = None
              /\ \E pd \in PresenceOf(p, y) : \E j \in 1..Len(pd) : Qualifying(pd[j])

\* C14 as stated: a call whose loop has ended with a heuristic match to report
\* returns the dict of its responses and dispatches their write-back, whether
\* msg_to_owner delivers or raises.
C14_Original ==
    \A p \in Procs :
        (/\ pc[p] = "done"
         /\ ~(index[p] < Len(xuids_to_get[p]))
         /\ NeedsAudit(responses[p], gather_devices_for[p])) =>
            /\ Returned(p)
            /\ result[p].dict = DictOf(responses[p], gather_devices_for[p])
            /\ task[p].st # "none"
            /\ task[p].pipe = PipeOf(responses[p], gather_devices_for[p])

\* An accumulated response of p's call gives xuid x the gamertag g.
Answered(p, x, g) ==
    \E n \in 1..Len(responses[p]) :
        IF responses[p][n].kind = "people"
        THEN \E i \in 1..Len(responses[p][n].people) :
                /\ responses[p][n].people[i].xuid = x
                /\ responses[p][n].people[i].gamertag = g
        ELSE responses[p][n].id = x /\ responses[p][n].gamertag = g

\* Every entry of the returned dict has a non-empty xuid of the input and a
\* non-empty gamertag that a response gave it.
EntriesResolved(p) ==
    \A x \in DOMAIN result[p].dict :
        /\ x # ""
        /\ x \in Range(xuids_to_get[p])
        /\ result[p].dict[x].gamertag \notin {"", None}
        /\ Answered(p, x, result[p].dict[x].gamertag)

\* C15 as stated: every entry of the returned dict has a non-empty xuid and a
\* non-empty gamertag from a response, and the xuids removed as invalid or whose
\* fallback attempt failed are not in the dict of the call that returned.
C15_Original ==
    \A p \in Procs :
        Returned(p) =>
            /\ EntriesResolved(p)
            /\ (pruned[p] \cup skipped[p]) \cap DOMAIN result[p].dict = {}

\* C15 as amended: every entry of the returned dict has a non-empty xuid and a
\* non-empty gamertag from a response; the xuids whose fallback attempt failed
\* are not in the dict, and neither are the xuids removed as invalid when the
\* call made no fallback call; the call returned all the same.
C15_OnlyResolvedEntries ==
    \A p \in Procs :
        Returned(p) =>
            /\ EntriesResolved(p)
            /\ skipped[p] \cap DOMAIN result[p].dict = {}
            /\ CallsMade(p) = {} => pruned[p] \cap DOMAIN result[p].dict = {}

\* C15 witness: a call returned names although one xuid was removed as invalid
\* and the fallback attempt of another failed; neither is in the dict.
C15_Witness ==
    \E p \in Procs :
        /\ Returned(p)
        /\ DOMAIN result[p].dict # {}
        /\ pruned[p] # {}
        /\ skipped[p] # {}
        /\ (pruned[p] \cup skipped[p]) \cap DOMAIN result[p].dict = {}

\* C16 as stated: the cursor never exceeds the number of identifiers, and a call
\* whose loop has ended has it equal to that number.
C16_Original ==
    \A p \in Procs :
        /\ index[p] <= Len(xuids_to_get[p])
        /\ (pc[p] = "done" /\ Returned(p)) => index[p] = Len(xuids_to_get[p])

\* C16 as amended: the cursor never decreases; a successful bulk call adds
\* AMOUNT_TO_GET to it whatever the length of the window taken or of the list
\* left after removals, so it ends less than AMOUNT_TO_GET beyond the number of
\* identifiers; a fallback attempt adds one and never takes it beyond that
\* number; an iteration starts only with the cursor below the number of
\* identifiers and the loop ends only with the cursor at or beyond it.
C16_CursorAdvance ==
    [][\A p \in Procs :
          /\ index'[p] >= index[p]
          /\ index'[p] < Len(xuids_to_get[p]) + AMOUNT_TO_GET
          /\ (pc[p] = "bulk" /\ index'[p] # index[p]) =>
                /\ index'[p] = index[p] + AMOUNT_TO_GET
                /\ Len(responses'[p]) = Len(responses[p]) + 1
                /\ pc'[p] = "loop"
          /\ (pc[p] = "bulk" /\ Len(responses'[p]) # Len(responses[p])) =>
                index'[p] = index[p] + AMOUNT_TO_GET
          /\ (pc[p] = "fallback" /\ index'[p] # index[p]) =>
                /\ index'[p] = index[p] + 1
                /\ index'[p] <= Len(xuids_to_get[p])
          /\ pc[p] \notin {"bulk", "fallback"} => index'[p] = index[p]
          /\ (pc[p] = "loop" /\ pc'[p] = "bulk") => index[p] < Len(xuids_to_get[p])
          /\ (pc[p] = "loop" /\ pc'[p] = "done") => index[p] >= Len(xuids_to_get[p])]_vars

\* C16 witness: a call returned after a window of removals and a short last
\* window, its cursor beyond the number of identifiers.
C16_Witness ==
    \E p \in Procs :
        /\ Returned(p)
        /\ Len(xuids_to_get[p]) > AMOUNT_TO_GET
        /\ pruned[p] # {}
        /\ index[p] > Len(xuids_to_get[p])

\* p is inside the async with block after this step.
InProviderCallNext(p) == pc'[p] \in {"bulk", "fallback"}

\* p makes a provider call in this step without leaving the block.
CallsOn(p) ==
    /\ InProviderCall(p) /\ InProviderCallNext(p)
    /\ \/ bulkCalls'[p] # bulkCalls[p]
       \/ fbCalls'[p] # fbCalls[p]
       \/ pc'[p] # pc[p]

\* C17: a caller takes one permit when it enters an iteration, the permit count
\* does not move while it retries the bulk call or runs the fallback phase, and
\* one permit goes back in the step that ends the iteration, whichever it is
\* (bulk success, end of the fallback phase, its timeout, an error that leaves
\* run, a cancellation); when every call has finished all permits are free.
C17_PermitPerIteration ==
    [][/\ \A p \in Procs :
            /\ (~InProviderCall(p) /\ InProviderCallNext(p)) =>
                  (sem > 0 /\ sem' = sem - 1)
            /\ CallsOn(p) => sem' = sem
            /\ (InProviderCall(p) /\ ~InProviderCallNext(p)) =>
                  (sem' = sem + 1 /\ pc'[p] \in {"loop", "done"})
       /\ (\A q \in Procs : pc'[q] = "done") => sem' = Permits]_vars

\* C17 witness: every call has finished, one cancelled inside its fallback
\* phase and one after a fallback phase ended by the timeout, and all permits
\* are free.
C17_Witness ==
    /\ \A q \in Procs : pc[q] = "done"
    /\ sem = Permits
    /\ \E p, q \in Procs :
          /\ Raised(p) /\ result[p].error = "cancelled"
          /\ fbCalls[p][1] > 0 /\ cuts[p] = 0 /\ index[p] = 0
          /\ cuts[q] > 0

\* p's fallback attempt ends in this step, not by the timeout of the phase.
AttemptEnds(p) ==
    /\ pc[p] = "fallback"
    /\ cuts'[p] = cuts[p]
    /\ \/ pc'[p] # pc[p]
       \/ index'[p] # index[p]
       \/ result'[p] # result[p]
       \/ fbCalls'[p] # fbCalls[p]

\* C18 as stated: whatever the outcome of a fallback attempt, the step that ends
\* it adds one to the cursor and the call goes on (with the next identifier, or
\* with the loop of run after the last one): it never leaves run with an error.
C18_Original ==
    [][\A p \in Procs :
          AttemptEnds(p) =>
              /\ index'[p] = index[p] + 1
              /\ result'[p] = Running
              /\ pc'[p] \in {"fallback", "loop"}]_vars

\* get_gamertags of p's iteration ends in this step (by its return or by an
\* exception), its retries after a removal aside.
BulkEnds(p) == pc[p] = "bulk" /\ pc'[p] # "bulk"

\* The step sends p to the fallback phase with its window and cursor as they were.
ToFallbackUnchanged(p) ==
    /\ pc'[p] = "fallback"
    /\ result'[p] = Running
    /\ index'[p] = index[p]
    /\ current_xuid_list'[p] = current_xuid_list[p]

\* The step ends p's call with the error of the bulk path, no fallback GET issued.
AbortsOnBulk(p) ==
    /\ pc'[p] = "done"
    /\ result'[p] = [status |-> "raised", error |-> "bulk"]
    /\ fbCalls'[p] = fbCalls[p]

\* C19 as stated: an error reply with a code whose description neither starts
\* with "Throttled" nor names an identifier of the window is a cooldown signal:
\* window and cursor stay, the fallback phase runs, the call does not abort.
C19_Original ==
    [][\A p \in Procs :
          provider = "coded" /\ BulkEnds(p) => ToFallbackUnchanged(p)]_vars

\* C20 as stated: a transport or parse failure of the bulk provider aborts the
\* call and never starts the fallback phase.
C20_Original ==
    [][\A p \in Procs :
          provider \in {"fatal", "caught"} /\ BulkEnds(p) => AbortsOnBulk(p)]_vars

\* C20, amended: a failure below HTTP (or any error other than the three run
\* names) aborts the call with no fallback GET; a body that fails validation and
\* an error reply with neither a code nor a limitType send the call to the
\* fallback phase with its window and cursor unchanged.
C20_AbortOnlyUncaught ==
    [][\A p \in Procs :
          BulkEnds(p) =>
              /\ provider = "fatal" => AbortsOnBulk(p)
              /\ provider = "caught" => ToFallbackUnchanged(p)]_vars

\* A call whose bulk request failed below HTTP has ended with that error and
\* has issued no fallback GET.
C20_Witness ==
    /\ provider = "fatal"
    /\ bulkCalls[1] = 1
    /\ Raised(1) /\ result[1].error = "bulk"
    /\ fbCalls[1] = NoCalls

\* run ended by an error or a cancellation that came before create_task.
EndedBeforeDispatch(p) ==
    Raised(p) /\ result[p].error \in {"audit", "cancelled"}

\* C21: when the staging raises (msg_to_owner fails) or the call is cancelled
\* before the pipeline was handed to create_task, run ends raising, no write-back
\* task exists for the call and no staged command, of the users handled before the
\* failure included, ever reaches the cache.
C21_NothingDispatched ==
    \A p \in Procs :
        EndedBeforeDispatch(p) =>
            /\ pc[p] = "done"
            /\ DOMAIN result[p] = {"status", "error"}
            /\ task[p] = NoTask
            /\ \A k \in Keys : cache[k] = None

\* C21 witness: the staging failed, or was cancelled, after commands of an
\* earlier user had been staged.
C21_Witness ==
    \E p \in Procs :
        /\ EndedBeforeDispatch(p)
        /\ NeedsAudit(responses[p], gather_devices_for[p])
        /\ StagedBeforeAudit(responses[p], gather_devices_for[p]) # <<>>

\* Every forward command of the pipeline is followed by the reverse command of
\* the same pair, with the same expiry.
WellPaired(pipe) ==
    /\ Len(pipe) % 2 = 0
    /\ \A i \in 1..(Len(pipe) \div 2) :
          LET f == pipe[2 * i - 1]
              r == pipe[2 * i]
          IN  /\ f[1] \in Xuids
              /\ r = <<"rpl-" \o f[2], f[1], f[3]>>
              /\ f[3] = EXPIRE_GAMERTAGS_AT

\* The step wrote the staged command: its key holds a value staged for it.
Written(pipe, op) ==
    cache'[op[1]] \in {pipe[i][2] : i \in StagedFor(pipe, op[1])}

\* The step wrote every command of the pipeline and no other key.
WroteAll(pipe) ==
    /\ \A i \in 1..Len(pipe) : Written(pipe, pipe[i])
    /\ \A k \in Keys : StagedFor(pipe, k) = {} => cache'[k] = cache[k]

\* C22: every pipeline a call dispatches, and the pipeline of the
\* gamertag-from-xuid command, holds the forward and the reverse command of each
\* pair next to each other with the one expiry constant; a step that changes
\* the cache is the execute of such a pipeline and writes both commands of every
\* pair of it; no step writes one command of a pair without the other.
C22_BothOrNeither ==
    [][/\ \A p \in Procs : WellPaired(task'[p].pipe)
       /\ cache' # cache =>
             \/ \E p \in Procs : WriteBackCompletes(p) /\ WroteAll(task[p].pipe)
             \/ \E x \in Xuids, g \in Gamertags : WroteAll(CommandPipe(x, g))]_vars

\* C22 witness: a write-back of a call has put both entries of a pair in the
\* cache, and the command both entries of another.
C22_Witness ==
    \E p \in Procs :
        /\ task[p].st = "executed"
        /\ \E x, y \in Xuids :
              /\ x \in DOMAIN result[p].dict
              /\ cache[x] = result[p].dict[x].gamertag
              /\ cache["rpl-" \o cache[x]] = x
              /\ y \notin DOMAIN result[p].dict
              /\ cache[y] \in Gamertags
              /\ cache["rpl-" \o cache[y]] = y

\* The places of the primary entries of an allow-listed title, and of those whose
\* text matches the heuristic.
AllowPlaces(pd) ==
    {i \in 1..Len(pd) : pd[i].is_primary /\ pd[i].title_id \in MINECRAFT_TITLE_IDS}
HeuristicPlaces(pd) ==
    {i \in 1..Len(pd) : pd[i].is_primary /\ ContainsMinecraftFor(Lower(pd[i].presence_text))}
Least(S) == CHOOSE i \in S : \A j \in S : i <= j

\* The presence list the one bulk response of the call holds for its one user.
PresenceSeen(p) == responses[p][1].people[1].presence_details

\* C23: for the user of a finished call that is in gather_devices_for, the device
\* is that of the first primary allow-listed entry when there is one, otherwise
\* that of the first primary entry matching the text heuristic, otherwise none;
\* msg_to_owner is awaited exactly when the device came from the heuristic, and
\* for a user outside gather_devices_for there is no device and no message.
C23_AllowListFirst ==
    \A p \in Procs :
        (pc[p] = "done" /\ responses[p] # <<>>) =>
            LET pd == PresenceSeen(p)
                in_gather == "x1" \in gather_devices_for[p]
                expected ==
                    IF ~in_gather THEN None
                    ELSE IF AllowPlaces(pd) # {} THEN pd[Least(AllowPlaces(pd))].device
                    ELSE IF HeuristicPlaces(pd) # {}
                         THEN pd[Least(HeuristicPlaces(pd))].device
                    ELSE None
                audited == NeedsAudit(responses[p], gather_devices_for[p])
            IN  /\ Returned(p) => result[p].dict["x1"].device = expected
                /\ audited <=> (in_gather /\ AllowPlaces(pd) = {} /\ HeuristicPlaces(pd) # {})
                /\ (Raised(p) /\ result[p].error = "audit") => audited

\* C23 witness: an entry matching the heuristic comes before an allow-listed one
\* on another device, and the call returned the device of the allow-listed one.
C23_Witness ==
    \E p \in Procs :
        /\ Returned(p)
        /\ "x1" \in gather_devices_for[p]
        /\ Len(PresenceSeen(p)) = 2
        /\ HeuristicPlaces(PresenceSeen(p)) = {1}
        /\ AllowPlaces(PresenceSeen(p)) = {2}
        /\ PresenceSeen(p)[1].device # PresenceSeen(p)[2].device
        /\ result[p].dict["x1"].device = PresenceSeen(p)[2].device

\* The cache loop of p's call runs in this step (bypass_cache false).
CacheLoopRuns(p) == pc[p] = "fill" /\ ~bypass_cache[p] /\ pc'[p] # "fill"

\* The value the cache read of the call holds for identifier x: that of its own
\* key, or of the sentinel key for an identifier in bypass_cache_for.
OwnRead(p, x) ==
    IF x \in bypass_cache_for[p] THEN cache[SENTINEL] ELSE cache[x]

\* C24 as stated: for every list of records, those with several records of one
\* identifier included, the cache loop gives the object of every identifier the
\* value read for that identifier's own key, and hands to run() exactly the
\* identifiers whose own read was a miss.
C24_Original ==
    [][\A p \in Procs :
          CacheLoopRuns(p) =>
              /\ \A x \in SessionXuids(player_sessions[p]) :
                    player_sessions'[p][DictSlot(player_sessions[p], x)].gamertag
                        = OwnRead(p, x)
              /\ Range(xuids_to_get'[p]) =
                    {x \in SessionXuids(player_sessions[p]) : Falsy(OwnRead(p, x))}]_vars

\* p's call is past its cache loop (bypass_cache false).
PastCacheLoop(p) == entry[p] = "fill" /\ ~bypass_cache[p] /\ pc[p] # "fill"

\* C25 as stated: with bypass_cache false the identifiers handed to run() are
\* exactly those in bypass_cache_for and those the cache held no name for when
\* the call began: none with a cache hit outside bypass_cache_for, and every one
\* in bypass_cache_for whatever the cache holds.
C25_Original ==
    \A p \in Procs :
        PastCacheLoop(p) =>
            Range(xuids_to_get[p]) =
                {x \in SessionXuids(player_sessions[p]) :
                    x \in bypass_cache_for[p] \/ Falsy(seen[p][x])}

\* p's call with bypass_cache true takes its else branch in this step.
BypassRuns(p) == pc[p] = "fill" /\ bypass_cache[p] /\ pc'[p] # "fill"

\* C26: with bypass_cache true no record takes a value from the cache, and for a
\* list that is not empty run() is called with all the identifiers of the list,
\* each once, and with that same set as gather_devices_for, whatever
\* bypass_cache_for and the cache hold; the handler keeps both to the end.
C26_BypassTakesAll ==
    [][\A p \in Procs :
          /\ BypassRuns(p) =>
                /\ player_sessions'[p] = player_sessions[p]
                /\ player_sessions[p] # <<>> =>
                      /\ pc'[p] = "loop"
                      /\ xuids_to_get'[p] = DictKeys(player_sessions[p])
                      /\ Range(xuids_to_get'[p]) = SessionXuids(player_sessions[p])
                      /\ gather_devices_for'[p] = SessionXuids(player_sessions[p])
                /\ player_sessions[p] = <<>> => pc'[p] = "returned"
          /\ (entry[p] = "fill" /\ pc[p] # "fill") =>
                /\ xuids_to_get'[p] = xuids_to_get[p]
                /\ gather_devices_for'[p] = gather_devices_for[p]]_vars

\* C26 witness: the caller named one identifier in bypass_cache_for and the cache
\* holds a name for every identifier, yet run() has all of them in both.
C26_Witness ==
    \E p \in Procs :
        /\ entry[p] = "fill" /\ bypass_cache[p] /\ pc[p] = "returned"
        /\ bypass_cache_for[p] = {"x1"}
        /\ Cardinality(SessionXuids(player_sessions[p])) >= 2
        /\ \A x \in SessionXuids(player_sessions[p]) : seen[p][x] # None
        /\ Range(xuids_to_get[p]) = SessionXuids(player_sessions[p])
        /\ gather_devices_for[p] = SessionXuids(player_sessions[p])

\* The identifiers the bulk responses of p's call hold a user for.
PeopleXuids(p) ==
    UNION {{responses[p][n].people[i].xuid : i \in 1..Len(responses[p][n].people)} :
              n \in {m \in 1..Len(responses[p]) : responses[p][m].kind = "people"}}

\* The step ends a bulk call of p with a response for the list left of its window.
BulkSucceeds(p) ==
    /\ pc[p] = "bulk"
    /\ Len(responses'[p]) = Len(responses[p]) + 1
    /\ responses'[p][Len(responses'[p])].kind = "people"

\* Position k of p's identifiers is passed by the cursor in this step.
Passed(p, k) == index[p] < k /\ k <= Min(index'[p], Len(xuids_to_get[p]))

\* C27: the cursor never passes an identifier unaccounted for: a step that moves
\* it ends either a bulk call that succeeded, and then passes only identifiers of
\* that call's window (each still in the list of the call, or pruned from it),
\* or a fallback attempt, and then passes the one identifier the GET was issued
\* for; so when run returns the cursor is at or beyond the count and every
\* identifier is in a bulk response, was pruned, or had a fallback GET.
C27_NoIdentifierSkipped ==
    [][\A p \in Procs :
          /\ index'[p] >= index[p]
          /\ \A k \in 1..Len(xuids_to_get[p]) :
                Passed(p, k) =>
                    \/ /\ BulkSucceeds(p)
                       /\ xuids_to_get[p][k] \in Range(Window(xuids_to_get[p], index[p]))
                       /\ xuids_to_get[p][k] \in Range(current_xuid_list[p]) \cup pruned[p]
                    \/ /\ pc[p] = "fallback"
                       /\ k = index[p] + 1
                       /\ fbCalls[p][k] > 0
          /\ result'[p].status = "returned" =>
                /\ index'[p] >= Len(xuids_to_get[p])
                /\ \A k \in 1..Len(xuids_to_get[p]) :
                      \/ xuids_to_get[p][k] \in PeopleXuids(p) \cup pruned[p]
                      \/ fbCalls[p][k] > 0]_vars

\* C27 witness: a call that returned after bulk successes, a pruning, a cooldown
\* and a fallback phase ended by the timeout.
C27_Witness ==
    \E p \in Procs :
        /\ Returned(p)
        /\ PeopleXuids(p) # {}
        /\ pruned[p] # {}
        /\ CallsMade(p) # {}
        /\ cuts[p] > 0

\* The identifiers the accumulator of p holds a response for, and the responses
\* it holds for identifier x.
ResponsesFor(p, x) ==
    {n \in 1..Len(responses[p]) :
        IF responses[p][n].kind = "people"
        THEN \E i \in 1..Len(responses[p][n].people) : responses[p][n].people[i].xuid = x
        ELSE responses[p][n].id = x}
Accumulated(p) == {x \in Xuids : ResponsesFor(p, x) # {}}

\* C28: the accumulator holds at most one response per identifier, and no step
\* sends to a provider an identifier it holds a response for: neither the list
\* of a bulk call issued in the step nor the identifier of a fallback GET issued
\* in the step is in it, also after fallback phases ended by the timeout.
C28_OneResponsePerIdentifier ==
    [][\A p \in Procs :
          /\ \A x \in Xuids : Cardinality(ResponsesFor(p, x))' <= 1
          /\ bulkCalls'[p] > bulkCalls[p] =>
                Range(current_xuid_list'[p]) \cap Accumulated(p)' = {}
          /\ \A k \in 1..Len(xuids_to_get[p]) :
                fbCalls'[p][k] > fbCalls[p][k] => xuids_to_get[p][k] \notin Accumulated(p)']_vars

\* C28 witness: a fallback response was appended, the phase was then ended by the
\* timeout, and the bulk call after it answered for other identifiers.
C28_Witness ==
    \E p \in Procs :
        /\ cuts[p] > 0
        /\ Len(responses[p]) >= 2
        /\ responses[p][1].kind = "profile"
        /\ responses[p][2].kind = "people"
        /\ responses[p][2].people # <<>>

\* A fallback attempt of p ends in this step with neither the timeout of the
\* phase nor an error that leaves run.
AttemptCompletes(p) ==
    /\ pc[p] = "fallback"
    /\ cuts'[p] = cuts[p]
    /\ result'[p] = Running
    /\ index'[p] # index[p]

\* p's cursor is at or beyond the count of its identifiers.
CursorAtEnd(p) == ~(index[p] < Len(xuids_to_get[p]))

\* C29: in a fallback phase every attempt that completes is followed by the GET
\* for the next identifier of the whole tuple, inside the window of the failed
\* bulk call or beyond it, and the phase ends by itself only after the attempt for
\* the last identifier, with the cursor equal to the count; from then on the call
\* issues no bulk call and no GET.
C29_PhaseRunsToEnd ==
    [][\A p \in Procs :
          /\ pc[p] = "fallback" => fbCalls[p][index[p] + 1] > 0
          /\ AttemptCompletes(p) =>
                /\ index'[p] = index[p] + 1
                /\ IF index'[p] < Len(xuids_to_get[p])
                   THEN /\ pc'[p] = "fallback"
                        /\ fbCalls'[p][index'[p] + 1] = fbCalls[p][index'[p] + 1] + 1
                   ELSE /\ pc'[p] = "loop"
                        /\ index'[p] = Len(xuids_to_get[p])
                        /\ fbCalls'[p] = fbCalls[p]
          /\ (pc[p] \in {"loop", "done"} /\ CursorAtEnd(p)) =>
                /\ bulkCalls'[p] = bulkCalls[p]
                /\ fbCalls'[p] = fbCalls[p]
                /\ pc'[p] \in {"loop", "done"}
                /\ index'[p] = index[p]]_vars

\* C29 witness: one bulk call was refused and the one fallback phase went through
\* more identifiers than a window holds, to the last one.
C29_Witness ==
    \E p \in Procs :
        /\ Returned(p)
        /\ cuts[p] = 0
        /\ bulkCalls[p] = 1
        /\ Len(xuids_to_get[p]) > AMOUNT_TO_GET
        /\ index[p] = Len(xuids_to_get[p])
        /\ \A k \in 1..Len(xuids_to_get[p]) : fbCalls[p][k] = 1

\* C30: a caller holds a permit exactly while it is inside the block of one
\* iteration, so it never waits for a permit while holding one; when a caller
\* waits and no permit is free, some caller is inside a provider call whose
\* return gives a permit back; and, provider calls coming back, a caller that
\* waits for a permit gets one.
C30_NoGateDeadlock ==
    /\ [](\A p \in Procs :
             /\ WaitsForPermit(p) => ~InProviderCall(p)
             /\ (WaitsForPermit(p) /\ sem = 0) =>
                   \E q \in Procs \ {p} : InProviderCall(q))
    /\ \A p \in Procs : WaitsForPermit(p) ~> InProviderCall(p)

\* C30 witness: one caller went through two iterations and has returned, and
\* another now holds the last permit.
C30_Witness ==
    \E p, q \in Procs :
        /\ p # q
        /\ Returned(q) /\ cuts[q] > 0 /\ bulkCalls[q] >= 2
        /\ InProviderCall(p)
        /\ sem = 0

\* The failures on record: the calls of eventually_invalidate made so far and
\* those that have ended.
Recorded == {c \in Failures : ipc[c] # "idle"}
Ended == {c \in Failures : ipc[c] = "done"}

\* C31 as stated: with every call made so far ended and the channel still
\* linked, the stored count is the number of calls (each raised it by one); the
\* channel is not unlinked before the limit-th failure on record and is unlinked
\* once limit calls have ended; and an unlinking that has ended leaves no
\* counter, live playerlist off and the guild out of the store, however the calls
\* were interleaved.
C31_Original ==
    /\ (Recorded = Ended /\ guild_config.playerlist_chan # None) =>
          ToInt(OrZero(invalid_playerlist)) = Cardinality(Ended)
    /\ guild_config.playerlist_chan = None => Cardinality(Recorded) >= limit
    /\ Cardinality(Ended) >= limit => guild_config.playerlist_chan = None
    /\ (Recorded = Ended /\ guild_config.playerlist_chan = None) =>
          /\ invalid_playerlist = None
          /\ ~guild_config.live_playerlist
          /\ "g1" \notin live_playerlist_store

====
